---- MODULE Spec2Model ----
(***************************************************************************)
(* State-machine model of the OpenNextCdk construct: reading and           *)
(* validating open-next.output.json, then the single synchronous pass of   *)
(* the OpenNextCdk constructor that creates the tag cache table, WAF,      *)
(* bucket, revalidation queue/consumer, seeder, server functions, image    *)
(* optimizer, logs, distribution, asset deployment, alarms, DNS, warmer    *)
(* and outputs, followed by synthesis (resolution of lazy values).         *)
(*                                                                         *)
(* Strings that the code takes apart or glues together (origin keys,       *)
(* construct ids, function names) are sequences of tokens: a token is a    *)
(* maximal run of letters and digits, or one single other character.       *)
(* Strings that the code only compares (patterns, variable names) are      *)
(* plain TLA+ strings.                                                     *)
(***************************************************************************)
EXTENDS Integers, Sequences, FiniteSets, TLC

\* ───────────────────────── bounds of the model ─────────────────────────
MaxSplitOrigins == 2
MaxBehaviors == 2
MaxCopyEntries == 2

\* ───────────────────────── generic helpers ─────────────────────────────
Range(s) == {s[i] : i \in 1..Len(s)}

RECURSIVE SeqsUpTo(_, _)
SeqsUpTo(S, n) ==
  IF n = 0 THEN {<<>>}
  ELSE LET shorter == SeqsUpTo(S, n - 1)
       IN shorter \cup {Append(s, x) : s \in {t \in shorter : Len(t) = n - 1}, x \in S}

\* Object spread / Object.assign: entries of b replace entries of a.
Assign(a, b) ==
  [k \in (DOMAIN a) \cup (DOMAIN b) |-> IF k \in DOMAIN b THEN b[k] ELSE a[k]]

EmptyMap == [k \in {} |-> "x"]

\* ───────────────────────── JavaScript objects ───────────────────────────
\* obj[key] = value on an object created by {}: the name '__proto__' reaches
\* the inherited setter and adds no own property. ProtoName is that name as a
\* pattern, ProtoKey the same name as an origin key (token sequence).
ProtoName == "__proto__"

ProtoKey == <<"_", "_", "proto", "_", "_">>

SetProperty(obj, key, value) ==
  IF key = ProtoName THEN obj ELSE Assign(obj, key :> value)

\* Own keys enumerate with the array-index names first, in ascending numeric
\* order, then the other names in insertion order. An array index is the
\* canonical decimal text of an integer from 0 to 2^32 - 2.
DigitChars == <<"0", "1", "2", "3", "4", "5", "6", "7", "8", "9">>

IsDigit(c) == \E d \in 1..10 : DigitChars[d] = c

DigitValue(c) == (CHOOSE d \in 1..10 : DigitChars[d] = c) - 1

CharAt(t, i) == SubSeq(t, i, i)

\* a < b for two canonical decimal texts, compared without computing values.
DecimalLess(a, b) ==
  \/ Len(a) < Len(b)
  \/ /\ Len(a) = Len(b)
     /\ \E i \in 1..Len(a) :
          /\ SubSeq(a, 1, i - 1) = SubSeq(b, 1, i - 1)
          /\ DigitValue(CharAt(a, i)) < DigitValue(CharAt(b, i))

MaxArrayIndex == "4294967294"

IsArrayIndexKey(key) ==
  /\ Len(key) = 1
  /\ Len(key[1]) >= 1
  /\ \A i \in 1..Len(key[1]) : IsDigit(CharAt(key[1], i))
  /\ Len(key[1]) = 1 \/ CharAt(key[1], 1) # "0"
  /\ ~DecimalLess(MaxArrayIndex, key[1])

\* The entries (records with a key field, distinct keys, in insertion
\* order) in the order Object.entries gives them.
OwnPropertyOrder(entries) ==
  LET ints == SelectSeq(entries, LAMBDA e : IsArrayIndexKey(e.key))
      rest == SelectSeq(entries, LAMBDA e : ~IsArrayIndexKey(e.key))
      sorted == [i \in 1..Len(ints) |->
                   CHOOSE e \in Range(ints) :
                     Cardinality({f \in Range(ints) :
                                    DecimalLess(f.key[1], e.key[1])}) = i - 1]
  IN sorted \o rest

\* ───────────────────────── JavaScript values ────────────────────────────
\* A JSON field is described by the kind of value it holds; "string" is a
\* non-empty string and "number" a non-zero number, the falsy '' and 0 are
\* the kinds "emptyString" and "zero".
Truthy(kind) == kind \notin {"undefined", "null", "false", "emptyString", "zero"}

TypeOf(kind) ==
  CASE kind = "undefined" -> "undefined"
    [] kind = "null" -> "object"
    [] kind = "array" -> "object"
    [] kind = "object" -> "object"
    [] kind = "string" -> "string"
    [] kind = "emptyString" -> "string"
    [] kind = "number" -> "number"
    [] kind = "zero" -> "number"
    [] kind = "true" -> "boolean"
    [] kind = "false" -> "boolean"

IsArray(kind) == kind = "array"

\* ───────────────────────── string tokens ────────────────────────────────
\* A string is the sequence of its tokens: each maximal run of two or more
\* characters of [a-zA-Z0-9] is one token, every other character is a token
\* of its own.
AlnumChars ==
  {"a", "b", "c", "d", "e", "f", "g", "h", "i", "j", "k", "l", "m",
   "n", "o", "p", "q", "r", "s", "t", "u", "v", "w", "x", "y", "z",
   "A", "B", "C", "D", "E", "F", "G", "H", "I", "J", "K", "L", "M",
   "N", "O", "P", "Q", "R", "S", "T", "U", "V", "W", "X", "Y", "Z",
   "0", "1", "2", "3", "4", "5", "6", "7", "8", "9"}

\* The token matches [a-zA-Z0-9]+, i.e. does not match /[^a-zA-Z0-9]/.
IsAlnumToken(t) == Len(t) > 1 \/ t \in AlnumChars

DEFAULT_PREFIX == <<"opennext">>

resourceName(prefix, suffix) == prefix \o <<"-">> \o suffix

\* .replace(/[^a-zA-Z0-9]/g, '-')
ReplaceNonAlnum(s) == [i \in 1..Len(s) |-> IF IsAlnumToken(s[i]) THEN s[i] ELSE "-"]

\* .replace(/-+/g, '-')
RECURSIVE CollapseDashes(_)
CollapseDashes(s) ==
  IF Len(s) <= 1 THEN s
  ELSE IF s[1] = "-" /\ s[2] = "-" THEN CollapseDashes(Tail(s))
       ELSE <<s[1]>> \o CollapseDashes(Tail(s))

\* .replace(/^-|-$/g, '')
TrimDashes(s) ==
  LET a == IF Len(s) > 0 /\ s[1] = "-" THEN Tail(s) ELSE s
  IN IF Len(a) > 0 /\ a[Len(a)] = "-" THEN SubSeq(a, 1, Len(a) - 1) ELSE a

originKeyToSuffix(originKey) == TrimDashes(CollapseDashes(ReplaceNonAlnum(originKey)))

\* ───────────────────────── node:path (posix) ────────────────────────────
\* The segments of a path: the runs of tokens between '/' tokens.
RECURSIVE SplitPath(_)
SplitPath(p) ==
  IF \A i \in 1..Len(p) : p[i] # "/" THEN <<p>>
  ELSE LET i == CHOOSE k \in 1..Len(p) : p[k] = "/" /\ \A j \in 1..(k - 1) : p[j] # "/"
       IN <<SubSeq(p, 1, i - 1)>> \o SplitPath(SubSeq(p, i + 1, Len(p)))

\* normalizeString: empty and '.' segments are dropped, '..' removes the
\* segment before it, or is kept where there is none to remove and the path
\* is relative.
RECURSIVE NormalizeSegments(_, _, _)
NormalizeSegments(segs, res, allowAboveRoot) ==
  IF segs = <<>> THEN res
  ELSE IF Head(segs) = <<>> \/ Head(segs) = <<".">>
    THEN NormalizeSegments(Tail(segs), res, allowAboveRoot)
  ELSE IF Head(segs) = <<".", ".">>
    THEN IF Len(res) > 0 /\ res[Len(res)] # <<".", ".">>
         THEN NormalizeSegments(Tail(segs), SubSeq(res, 1, Len(res) - 1), allowAboveRoot)
         ELSE IF allowAboveRoot
           THEN NormalizeSegments(Tail(segs), Append(res, Head(segs)), allowAboveRoot)
         ELSE NormalizeSegments(Tail(segs), res, allowAboveRoot)
  ELSE NormalizeSegments(Tail(segs), Append(res, Head(segs)), allowAboveRoot)

RECURSIVE JoinSegments(_)
JoinSegments(segs) ==
  IF segs = <<>> THEN <<>>
  ELSE IF Len(segs) = 1 THEN segs[1]
  ELSE segs[1] \o <<"/">> \o JoinSegments(Tail(segs))

\* path.normalize
PathNormalize(p) ==
  IF p = <<>> THEN <<".">>
  ELSE LET isAbsolute == p[1] = "/"
           trailingSeparator == p[Len(p)] = "/"
           body == JoinSegments(NormalizeSegments(SplitPath(p), <<>>, ~isAbsolute))
       IN IF body = <<>>
          THEN IF isAbsolute THEN <<"/">>
               ELSE IF trailingSeparator THEN <<".", "/">> ELSE <<".">>
          ELSE (IF isAbsolute THEN <<"/">> ELSE <<>>) \o body \o
               (IF trailingSeparator THEN <<"/">> ELSE <<>>)

\* path.join of two arguments: the non-empty ones glued with '/', normalized.
PathJoin(a, b) ==
  IF a = <<>> /\ b = <<>> THEN <<".">>
  ELSE IF a = <<>> THEN PathNormalize(b)
  ELSE IF b = <<>> THEN PathNormalize(a)
  ELSE PathNormalize(a \o <<"/">> \o b)

\* ───────────────────────── manifest-reader.ts ───────────────────────────
DefaultKey == <<"default">>
S3Key == <<"s3">>
ImageKey == <<"imageOptimizer">>
NoOrigin == <<>>

OriginKeysOf(m) == [i \in 1..Len(m.origins) |-> m.origins[i].key]

HasOrigin(m, key) == \E i \in 1..Len(m.origins) : m.origins[i].key = key

OriginOf(m, key) == m.origins[CHOOSE i \in 1..Len(m.origins) : m.origins[i].key = key]

\* Variant: the behaviors field is not validated.
validateManifest_NoBehaviorsCheck(content) ==
  IF content.top = "null" THEN [status |-> "TypeError", field |-> "origins"]
  ELSE IF ~Truthy(content.obj.originsKind) \/ TypeOf(content.obj.originsKind) # "object"
    THEN [status |-> "ManifestValidationError", field |-> "origins"]
  ELSE IF ~HasOrigin(content.obj, DefaultKey)
    THEN [status |-> "ManifestValidationError", field |-> "default"]
  ELSE [status |-> "ok", field |-> "none"]

\* validateManifest: "ok", or the field the thrown message names; "TypeError"
\* when reading a property of null throws before any check.
validateManifest(content) ==
  IF content.top = "null" THEN [status |-> "TypeError", field |-> "origins"]
  ELSE IF ~Truthy(content.obj.originsKind) \/ TypeOf(content.obj.originsKind) # "object"
    THEN [status |-> "ManifestValidationError", field |-> "origins"]
  ELSE IF ~Truthy(content.obj.behaviorsKind) \/ ~IsArray(content.obj.behaviorsKind)
    THEN [status |-> "ManifestValidationError", field |-> "behaviors"]
  ELSE IF ~HasOrigin(content.obj, DefaultKey)
    THEN [status |-> "ManifestValidationError", field |-> "default"]
  ELSE [status |-> "ok", field |-> "none"]

readManifest(f) ==
  IF ~f.exists THEN [status |-> "ManifestNotFound", field |-> "runBuildFirst"]
  ELSE IF f.top = "malformed" THEN [status |-> "ManifestParseError", field |-> "none"]
  ELSE validateManifest(f)

Reserved == {DefaultKey, S3Key, ImageKey}

\* Variant: the non-reserved keys are returned last key first.
getSplitFunctionOrigins_Reversed(m) ==
  LET keys == SelectSeq(OriginKeysOf(m), LAMBDA key : key \notin Reserved)
  IN [i \in 1..Len(keys) |-> keys[Len(keys) + 1 - i]]

getSplitFunctionOrigins(m) == SelectSeq(OriginKeysOf(m), LAMBDA key : key \notin Reserved)

hasInitializationFunction(m) == m.initializationFunction \notin {"undefined", "null"}

getS3OriginPath(m) == IF HasOrigin(m, S3Key) THEN OriginOf(m, S3Key).originPath ELSE "undefined"

BuildRootPrefix == <<".", "open", "-", "next", "/">>

StartsWith(p, prefix) == Len(p) >= Len(prefix) /\ SubSeq(p, 1, Len(prefix)) = prefix

normalizeBundlePath(p) ==
  IF StartsWith(p, BuildRootPrefix) THEN SubSeq(p, Len(BuildRootPrefix) + 1, Len(p)) ELSE p

getAssetCopyEntries(m) ==
  IF ~HasOrigin(m, S3Key) THEN <<>>
  ELSE [i \in 1..Len(OriginOf(m, S3Key).copy) |->
          [OriginOf(m, S3Key).copy[i] EXCEPT !.from = normalizeBundlePath(@)]]

\* Variant: the entries are normalized in place, so the manifest's own copy
\* list carries the stripped paths after the call.
ManifestAfterGetAssetCopyEntries_InPlace(m) ==
  [m EXCEPT !.origins =
     [i \in 1..Len(m.origins) |->
        IF m.origins[i].key = S3Key
        THEN [m.origins[i] EXCEPT !.copy = getAssetCopyEntries(m)]
        ELSE m.origins[i]]]

\* The manifest object after getAssetCopyEntries(manifest) returned: map()
\* and the spread build new arrays and objects, and nothing is assigned to
\* the argument or to one of its entries.
ManifestAfterGetAssetCopyEntries(m) == m

\* ───────────────────────── caller options ───────────────────────────────
\* cdk.RemovalPolicy, the values assetsRemovalPolicy can take.
RemovalPolicies == {"DESTROY", "RETAIN", "SNAPSHOT", "RETAIN_ON_UPDATE_OR_DELETE"}

\* LambdaFunctionOptions: only the fields that decide variables and grants.
\* existingFunction is a lambda.IFunction: the caller's object either has
\* addEnvironment (a lambda.Function the caller built) or has not (an
\* imported function); existingHasAddEnvironment says which.
NoOptions ==
  [existingFunction |-> FALSE, existingHasAddEnvironment |-> FALSE, environment |-> EmptyMap]

OptionsFor(splitFunctions, originKey) ==
  IF originKey \in DOMAIN splitFunctions THEN splitFunctions[originKey] ELSE NoOptions

\* ───────────────────────── components/tag-cache-table.ts ────────────────
\* The table handle the component exposes.
TagCacheTable(options) ==
  IF options.disabled = "true" THEN "undefined"
  ELSE IF options.existingTable THEN "existing"
  ELSE "created"

\* ───────────────────────── components/waf.ts ────────────────────────────
WAF_MANAGED_RULE_GROUPS ==
  << "AWSManagedRulesCommonRuleSet", "AWSManagedRulesKnownBadInputsRuleSet",
     "AWSManagedRulesLinuxRuleSet", "AWSManagedRulesUnixRuleSet" >>

\* Variant: the existing ARN is looked at before the enabled flag.
Waf_ExistingFirst(options) ==
  IF options.existingWebAclArn THEN [webAclArn |-> "existing", rules |-> <<>>]
  ELSE IF options.enabled = "false" THEN [webAclArn |-> "undefined", rules |-> <<>>]
  ELSE [webAclArn |-> "created",
        rules |-> WAF_MANAGED_RULE_GROUPS \o options.additionalRules]

Waf(options) ==
  IF options.enabled = "false" THEN [webAclArn |-> "undefined", rules |-> <<>>]
  ELSE IF options.existingWebAclArn THEN [webAclArn |-> "existing", rules |-> <<>>]
  ELSE [webAclArn |-> "created",
        rules |-> WAF_MANAGED_RULE_GROUPS \o options.additionalRules]

\* ───────────────────────── function environments ────────────────────────
CacheBucketVars ==
  ("CACHE_BUCKET_NAME" :> "bucket.bucketName") @@
  ("CACHE_BUCKET_KEY_PREFIX" :> "_cache") @@
  ("CACHE_BUCKET_REGION" :> "stack.region")

QueueVars ==
  ("REVALIDATION_QUEUE_URL" :> "queue.queueUrl") @@
  ("REVALIDATION_QUEUE_REGION" :> "stack.region")

TableVars == ("CACHE_DYNAMO_TABLE" :> "table.tableName")

InvokeMode(origin) == IF origin.streaming THEN "RESPONSE_STREAM" ELSE "BUFFERED"

\* ───────────────────────── components/server-function.ts ────────────────
ServerFunctionEnvironment(tagCacheTable, fnOpts, disableIncrementalCache) ==
  Assign(Assign(Assign(
    IF disableIncrementalCache THEN EmptyMap ELSE CacheBucketVars,
    QueueVars),
    IF tagCacheTable # "undefined" THEN TableVars ELSE EmptyMap),
    fnOpts.environment)

ServerFunctionGrants(tagCacheTable, disableIncrementalCache) ==
  (IF ~disableIncrementalCache THEN {"bucket.grantReadWrite"} ELSE {}) \cup
  {"queue.grantSendMessages"} \cup
  (IF tagCacheTable # "undefined" THEN {"table.grantReadWriteData"} ELSE {})

ServerFunction(prefix, originKey, origin, tagCacheTable, fnOpts, disableIncrementalCache) ==
  IF fnOpts.existingFunction
  THEN [existing |-> TRUE, name |-> <<"existing", ":">> \o originKey,
        env |-> EmptyMap, grants |-> {}, invokeMode |-> InvokeMode(origin)]
  ELSE [existing |-> FALSE,
        name |-> resourceName(prefix,
                   IF originKey = DefaultKey THEN <<"server">> ELSE originKey),
        env |-> ServerFunctionEnvironment(tagCacheTable, fnOpts, disableIncrementalCache),
        grants |-> ServerFunctionGrants(tagCacheTable, disableIncrementalCache),
        invokeMode |-> InvokeMode(origin)]

\* ───────────────────────── components/revalidation.ts ───────────────────
\* The consumer function; fn.addEnvironment runs after the constructor's
\* environment (caller entries included) and replaces an entry of that name.
Revalidation(prefix, tagCacheTable, fnOpts) ==
  [existing |-> FALSE,
   name |-> resourceName(prefix, <<"revalidation">>),
   env |-> Assign(Assign(CacheBucketVars, fnOpts.environment),
                  IF tagCacheTable # "undefined" THEN TableVars ELSE EmptyMap),
   grants |-> {"bucket.grantReadWrite"} \cup
              (IF tagCacheTable # "undefined" THEN {"table.grantReadWriteData"} ELSE {}),
   invokeMode |-> "none"]

\* ───────────────────────── components/tag-cache-seeder.ts ───────────────
TagCacheSeeder(prefix, fnOpts) ==
  [existing |-> FALSE,
   name |-> resourceName(prefix, <<"tag", "-", "cache", "-", "seeder">>),
   env |-> Assign(TableVars @@ ("CACHE_BUCKET_REGION" :> "stack.region"),
                  fnOpts.environment),
   grants |-> {"table.grantReadWriteData"},
   invokeMode |-> "none"]

\* ───────────────────────── components/image-optimization.ts ─────────────
ImageOptimization(prefix, fnOpts, assetKeyPrefix) ==
  IF fnOpts.existingFunction
  THEN [existing |-> TRUE, name |-> <<"existing", ":", "imageOptimizer">>,
        env |-> EmptyMap, grants |-> {}, invokeMode |-> "BUFFERED"]
  ELSE [existing |-> FALSE,
        name |-> resourceName(prefix, <<"image", "-", "optimization">>),
        env |-> Assign(("BUCKET_NAME" :> "bucket.bucketName") @@
                       ("BUCKET_KEY_PREFIX" :>
                          IF assetKeyPrefix = "undefined" THEN "" ELSE assetKeyPrefix),
                       fnOpts.environment),
        grants |-> {"bucket.grantRead"},
        invokeMode |-> "BUFFERED"]

\* ───────────────────────── components/distribution.ts ───────────────────
ALLOW_ALL == {"GET", "HEAD", "OPTIONS", "PUT", "PATCH", "POST", "DELETE"}
ALLOW_GET_HEAD == {"GET", "HEAD"}
ALLOW_GET_HEAD_OPTIONS == {"GET", "HEAD", "OPTIONS"}

NoAssociations == {}
HostRewriteAssociation == {<<"HostHeaderRewrite", "VIEWER_REQUEST">>}

\* createS3Origin: the bucket origin, with "/" + path when the path is set.
createS3Origin(s3OriginPath) ==
  [kind |-> "s3", key |-> S3Key,
   originPath |-> IF s3OriginPath \notin {"undefined", ""} THEN <<"/", s3OriginPath>> ELSE <<>>]

createImageOptimOrigin == [kind |-> "imageOptimizer", key |-> ImageKey, originPath |-> <<>>]

\* createServerOrigins: one HttpOrigin per entry of serverFunctionUrls.
createServerOrigins(urls) ==
  [key \in {urls[i].key : i \in 1..Len(urls)} |->
     [kind |-> "server", key |-> key, originPath |-> <<>>]]

\* Variant: the default rule built with the image-optimizer method set.
createServerBehaviorOptions_ReadOnly(defaultServerOrigin) ==
  [origin |-> defaultServerOrigin,
   viewerProtocolPolicy |-> "REDIRECT_TO_HTTPS",
   allowedMethods |-> ALLOW_GET_HEAD_OPTIONS,
   cachedMethods |-> ALLOW_GET_HEAD_OPTIONS,
   cachePolicy |-> "ServerCachePolicy",
   originRequestPolicy |-> "ServerOriginRequestPolicy",
   responseHeadersPolicy |-> "ResponseHeadersPolicy",
   compress |-> TRUE,
   functionAssociations |-> HostRewriteAssociation]

createServerBehaviorOptions(defaultServerOrigin) ==
  [origin |-> defaultServerOrigin,
   viewerProtocolPolicy |-> "REDIRECT_TO_HTTPS",
   allowedMethods |-> ALLOW_ALL,
   cachedMethods |-> ALLOW_GET_HEAD_OPTIONS,
   cachePolicy |-> "ServerCachePolicy",
   originRequestPolicy |-> "ServerOriginRequestPolicy",
   responseHeadersPolicy |-> "ResponseHeadersPolicy",
   compress |-> TRUE,
   functionAssociations |-> HostRewriteAssociation]

\* Variant: the static-asset rule built from the dynamic template.
StaticAssetBehavior_Dynamic(s3Origin) ==
  [origin |-> s3Origin,
   viewerProtocolPolicy |-> "REDIRECT_TO_HTTPS",
   allowedMethods |-> ALLOW_GET_HEAD_OPTIONS,
   cachedMethods |-> ALLOW_GET_HEAD_OPTIONS,
   cachePolicy |-> "ServerCachePolicy",
   originRequestPolicy |-> "ServerOriginRequestPolicy",
   responseHeadersPolicy |-> "undefined",
   compress |-> TRUE,
   functionAssociations |-> HostRewriteAssociation]

StaticAssetBehavior(s3Origin) ==
  [origin |-> s3Origin,
   viewerProtocolPolicy |-> "REDIRECT_TO_HTTPS",
   allowedMethods |-> ALLOW_GET_HEAD,
   cachedMethods |-> ALLOW_GET_HEAD,
   cachePolicy |-> "CACHING_OPTIMIZED",
   originRequestPolicy |-> "undefined",
   responseHeadersPolicy |-> "undefined",
   compress |-> TRUE,
   functionAssociations |-> NoAssociations]

ImageOptimizationBehavior(imageOptOrigin) ==
  [origin |-> imageOptOrigin,
   viewerProtocolPolicy |-> "REDIRECT_TO_HTTPS",
   allowedMethods |-> ALLOW_GET_HEAD_OPTIONS,
   cachedMethods |-> ALLOW_GET_HEAD_OPTIONS,
   cachePolicy |-> "ServerCachePolicy",
   originRequestPolicy |-> "ServerOriginRequestPolicy",
   responseHeadersPolicy |-> "undefined",
   compress |-> TRUE,
   functionAssociations |-> HostRewriteAssociation]

SplitFunctionBehavior(splitOrigin) ==
  [origin |-> splitOrigin,
   viewerProtocolPolicy |-> "REDIRECT_TO_HTTPS",
   allowedMethods |-> ALLOW_ALL,
   cachedMethods |-> ALLOW_GET_HEAD_OPTIONS,
   cachePolicy |-> "ServerCachePolicy",
   originRequestPolicy |-> "ServerOriginRequestPolicy",
   responseHeadersPolicy |-> "ResponseHeadersPolicy",
   compress |-> TRUE,
   functionAssociations |-> HostRewriteAssociation]

IsCatchAll(pattern) == pattern = "*" \/ pattern = "/*"

\* Variant: a behavior whose origin does not resolve falls back to the
\* default server origin instead of being skipped.
AddBehavior_Fallback(additionalBehaviors, behavior, s3Origin, imageOptOrigin, serverOrigins) ==
  IF behavior.pattern = "*" \/ behavior.pattern = "/*" THEN additionalBehaviors
  ELSE IF behavior.origin = S3Key
    THEN Assign(additionalBehaviors, behavior.pattern :> StaticAssetBehavior(s3Origin))
  ELSE IF behavior.origin = ImageKey
    THEN Assign(additionalBehaviors,
                behavior.pattern :> ImageOptimizationBehavior(imageOptOrigin))
  ELSE Assign(additionalBehaviors,
              behavior.pattern :>
                SplitFunctionBehavior(
                  IF behavior.origin \in DOMAIN serverOrigins
                  THEN serverOrigins[behavior.origin] ELSE serverOrigins[DefaultKey]))

\* One iteration of the loop over manifest.behaviors: the behaviors record
\* after the iteration (a later entry for a pattern replaces an earlier one).
AddBehavior(additionalBehaviors, behavior, s3Origin, imageOptOrigin, serverOrigins) ==
  IF IsCatchAll(behavior.pattern) THEN additionalBehaviors
  ELSE IF behavior.origin = S3Key
    THEN SetProperty(additionalBehaviors, behavior.pattern, StaticAssetBehavior(s3Origin))
  ELSE IF behavior.origin = ImageKey
    THEN SetProperty(additionalBehaviors, behavior.pattern,
                     ImageOptimizationBehavior(imageOptOrigin))
  ELSE IF behavior.origin # NoOrigin
    THEN IF behavior.origin \notin DOMAIN serverOrigins THEN additionalBehaviors
         ELSE SetProperty(additionalBehaviors, behavior.pattern,
                          SplitFunctionBehavior(serverOrigins[behavior.origin]))
  ELSE additionalBehaviors

RECURSIVE createAdditionalBehaviors(_, _, _, _)
createAdditionalBehaviors(behaviors, s3Origin, imageOptOrigin, serverOrigins) ==
  IF behaviors = <<>> THEN EmptyMap
  ELSE AddBehavior(
         createAdditionalBehaviors(SubSeq(behaviors, 1, Len(behaviors) - 1),
                                   s3Origin, imageOptOrigin, serverOrigins),
         behaviors[Len(behaviors)], s3Origin, imageOptOrigin, serverOrigins)

\* Merge in user-provided additional behaviors: Object.assign sets each own
\* key of the caller's object on the manifest-derived object.
MergeAdditionalBehaviors(additionalBehaviors, callerBehaviors) ==
  Assign(additionalBehaviors,
         [k \in DOMAIN callerBehaviors \ {ProtoName} |-> callerBehaviors[k]])

\* DistributionComponent: throws when serverFunctionUrls has no "default".
DistributionComponent(m, urls, options, webAclArn, logBucket, s3OriginPath) ==
  LET serverOrigins == createServerOrigins(urls)
  IN IF DefaultKey \notin DOMAIN serverOrigins
     THEN [ok |-> FALSE, defaultBehavior |-> EmptyMap, additionalBehaviors |-> EmptyMap,
           webAclId |-> webAclArn, enableLogging |-> FALSE, domainNames |-> <<>>]
     ELSE [ok |-> TRUE,
           defaultBehavior |-> createServerBehaviorOptions(serverOrigins[DefaultKey]),
           additionalBehaviors |->
             MergeAdditionalBehaviors(
               createAdditionalBehaviors(m.behaviors, createS3Origin(s3OriginPath),
                                         createImageOptimOrigin, serverOrigins),
               options.additionalBehaviors),
           webAclId |-> webAclArn,
           enableLogging |-> logBucket # "undefined",
           domainNames |-> options.domainNames]

\* ───────────────────────── remaining components ─────────────────────────
\* CloudFrontLogs: the log bucket handle.
CloudFrontLogs(options) ==
  IF ~options.enabled THEN "undefined"
  ELSE IF options.logBucket THEN "existing" ELSE "created"

\* AssetDeployment: one BucketDeployment per copy entry of the s3 origin.
AssetDeployment(openNextPath, m) ==
  [i \in 1..Len(getAssetCopyEntries(m)) |->
     [id |-> <<"Deploy", i - 1>>,
      source |-> PathJoin(openNextPath, getAssetCopyEntries(m)[i].from),
      destinationKeyPrefix |-> IF getAssetCopyEntries(m)[i].to \in {"/", ""}
                               THEN "undefined" ELSE getAssetCopyEntries(m)[i].to,
      cacheControl |-> IF getAssetCopyEntries(m)[i].cached
                       THEN "VERSIONED_CACHE_CONTROL" ELSE "STATIC_CACHE_CONTROL"]]

\* Alarms: the id and alarmName of the alarms created inside the Alarms
\* construct, in creation order.
Alarms(prefix, options, serverFns) ==
  IF ~options.enabled THEN <<>>
  ELSE << [id |-> <<"DlqDepthAlarm">>,
           alarmName |-> resourceName(prefix, <<"revalidation", "-", "dlq", "-", "depth">>)] >> \o
       [i \in 1..Len(serverFns) |->
          LET suffix == IF serverFns[i].key = DefaultKey THEN <<"server">>
                        ELSE serverFns[i].key
          IN [id |-> <<"ServerErrorAlarm", "-">> \o suffix,
              alarmName |-> resourceName(prefix, suffix \o <<"-", "errors">>)]] \o
       << [id |-> <<"RevalidationErrorAlarm">>,
           alarmName |-> resourceName(prefix, <<"revalidation", "-", "errors">>)],
          [id |-> <<"CloudFront5xxAlarm">>,
           alarmName |-> resourceName(prefix, <<"cloudfront", "-", "5xx", "-", "rate">>)] >>

\* Dns: the record names; each gets one A and one AAAA record.
Dns(options) ==
  IF options.recordNamesDefined THEN options.recordNames
  ELSE IF options.zoneName # "" THEN <<options.zoneName>> ELSE <<>>

\* Warmer: the warmer function, or none when the warmer is not enabled.
Warmer(prefix, options, serverFns) ==
  [existing |-> FALSE,
   name |-> resourceName(prefix, <<"warmer">>),
   env |-> Assign(("FUNCTION_NAME" :> "JSON(functionNameMap)") @@
                  ("CONCURRENCY" :> "concurrency"),
                  options.functionOptions.environment),
   grants |-> {"serverFunctions.grantInvoke"},
   invokeMode |-> "none"]

\* ───────────────────────── inputs of a build ────────────────────────────
Tri == {"undefined", "true", "false"}

Origin(key, type) ==
  [key |-> key, type |-> type, streaming |-> FALSE, originPath |-> "undefined",
   copy |-> <<>>]

DefaultEntry == [Origin(DefaultKey, "function") EXCEPT !.streaming = TRUE]

S3Entry ==
  [Origin(S3Key, "s3") EXCEPT
     !.originPath = "_assets",
     !.copy = << [from |-> <<".", "open", "-", "next", "/", "assets">>,
                  to |-> "/", cached |-> FALSE, versionedSubDir |-> "undefined"],
                 [from |-> <<"cache">>, to |-> "_cache", cached |-> TRUE,
                  versionedSubDir |-> "undefined"] >>]

ImageEntry == Origin(ImageKey, "function")

SplitKeys == {<<"api">>, <<"a", "_", "b">>, <<"a", "-", "b">>}

SplitEntries == {Origin(k, t) : k \in SplitKeys, t \in {"function", "s3"}}

SplitSeqs ==
  {s \in SeqsUpTo(SplitEntries, MaxSplitOrigins) :
     \A i, j \in 1..Len(s) : i # j => s[i].key # s[j].key}

StdOrigins(splits) == <<S3Entry, DefaultEntry, ImageEntry>> \o splits

Behavior(pattern, origin) ==
  [pattern |-> pattern, origin |-> origin,
   edgeFunction |-> IF origin = NoOrigin THEN "middleware" ELSE "undefined"]

StdBehaviors ==
  << Behavior("_next/static/*", S3Key), Behavior("_next/image", ImageKey),
     Behavior("api/*", <<"api">>), Behavior("*", DefaultKey) >>

BehaviorUniverse ==
  {Behavior("*", DefaultKey), Behavior("*", S3Key), Behavior("/*", S3Key)} \cup
  {Behavior("a/*", o) : o \in {DefaultKey, S3Key, ImageKey, <<"api">>, <<"ghost">>, NoOrigin}} \cup
  {Behavior("b/*", o) : o \in {S3Key, <<"api">>}}

Manifest(origins, behaviors) ==
  [hasVersion |-> TRUE, originsKind |-> "object", origins |-> origins,
   behaviorsKind |-> "array", behaviors |-> behaviors,
   disableTagCache |-> "undefined", disableIncrementalCache |-> "undefined",
   initializationFunction |-> "undefined", edgeFunctions |-> <<>>]

EmptyObject ==
  [Manifest(<<>>, <<>>) EXCEPT !.originsKind = "undefined", !.behaviorsKind = "undefined"]

FileOf(m) == [exists |-> TRUE, top |-> "object", obj |-> m]

CollidingEnv ==
  [k \in {"CACHE_DYNAMO_TABLE", "CACHE_BUCKET_NAME", "REVALIDATION_QUEUE_URL",
          "OPEN_NEXT_ORIGIN", "BUCKET_KEY_PREFIX"} |-> "caller"]

CustomEnv == ("MY_VAR" :> "caller")

\* A caller map for the log forwarder that names the variable the component
\* sets itself.
ForwarderEnv == ("LOG_GROUP_NAME" :> "caller") @@ ("MY_VAR" :> "caller")

WithEnv(env) ==
  [existingFunction |-> FALSE, existingHasAddEnvironment |-> FALSE, environment |-> env]

\* An imported function as existingFunction.
Existing ==
  [existingFunction |-> TRUE, existingHasAddEnvironment |-> FALSE, environment |-> EmptyMap]

\* A lambda.Function of the caller as existingFunction.
ExistingFunction ==
  [existingFunction |-> TRUE, existingHasAddEnvironment |-> TRUE, environment |-> EmptyMap]

\* A caller override of the options of one function.
Overrides ==
  {[target |-> "none", opts |-> NoOptions]} \cup
  {[target |-> t, opts |-> WithEnv(CollidingEnv)] :
     t \in {"serverFunction", "splitFunctions", "revalidation",
            "initializationFunction", "imageOptimizationFunction"}} \cup
  {[target |-> "serverFunction", opts |-> WithEnv(CustomEnv)]} \cup
  {[target |-> t, opts |-> Existing] :
     t \in {"serverFunction", "splitFunctions", "imageOptimizationFunction"}} \cup
  {[target |-> "serverFunction", opts |-> ExistingFunction]}

CallerBehavior(methods) ==
  [origin |-> [kind |-> "caller", key |-> <<"callerOrigin">>, originPath |-> <<>>],
   viewerProtocolPolicy |-> "ALLOW_ALL",
   allowedMethods |-> methods,
   cachedMethods |-> ALLOW_GET_HEAD,
   cachePolicy |-> "undefined",
   originRequestPolicy |-> "undefined",
   responseHeadersPolicy |-> "undefined",
   compress |-> FALSE,
   functionAssociations |-> NoAssociations]

CallerBehaviorSets ==
  { EmptyMap,
    ("a/*" :> CallerBehavior(ALLOW_GET_HEAD_OPTIONS)),
    ("a/*" :> CallerBehavior(ALLOW_GET_HEAD_OPTIONS)) @@ ("c/*" :> CallerBehavior(ALLOW_ALL)) }

DefaultProps ==
  [openNextPath |-> <<".", "open", "-", "next">>,
   prefix |-> [defined |-> FALSE, value |-> <<>>],
   tagCache |-> [disabled |-> "undefined", existingTable |-> FALSE],
   serverFunction |-> NoOptions,
   splitFunctions |-> EmptyMap,
   imageOptimizationFunction |-> NoOptions,
   revalidation |-> [functionOptions |-> NoOptions, encryptionKey |-> FALSE],
   initializationFunction |-> [functionOptions |-> NoOptions],
   waf |-> [enabled |-> "undefined", existingWebAclArn |-> FALSE, additionalRules |-> <<>>],
   assetsBucket |-> FALSE,
   assetsRemovalPolicy |-> "undefined",
   cloudfrontLogs |-> [enabled |-> FALSE, logBucket |-> FALSE,
                       functionOptions |-> NoOptions],
   alarms |-> [enabled |-> FALSE],
   dns |-> [defined |-> FALSE, recordNamesDefined |-> FALSE, recordNames |-> <<>>,
            zoneName |-> ""],
   warmer |-> [enabled |-> FALSE, functionOptions |-> NoOptions],
   distribution |-> [additionalBehaviors |-> EmptyMap, domainNames |-> <<>>]]

WithOverride(p, o) ==
  [p EXCEPT
     !.serverFunction = IF o.target = "serverFunction" THEN o.opts ELSE @,
     !.splitFunctions = IF o.target = "splitFunctions" THEN (<<"api">> :> o.opts) ELSE @,
     !.imageOptimizationFunction =
        IF o.target = "imageOptimizationFunction" THEN o.opts ELSE @,
     !.revalidation = IF o.target = "revalidation"
                      THEN [functionOptions |-> o.opts, encryptionKey |-> FALSE] ELSE @,
     !.initializationFunction =
        IF o.target = "initializationFunction" THEN [functionOptions |-> o.opts] ELSE @]

\* Contents of open-next.output.json that the reader has to classify.
ReaderFiles ==
  {[exists |-> FALSE, top |-> "object", obj |-> EmptyObject]} \cup
  {[exists |-> TRUE, top |-> t, obj |-> EmptyObject] :
     t \in {"malformed", "null", "number", "string", "array"}} \cup
  {FileOf([Manifest(IF ok = "object" /\ hasDefault THEN StdOrigins(<<>>)
                    ELSE IF ok = "object" THEN <<S3Entry>> ELSE <<>>,
                    IF bk = "array" THEN StdBehaviors ELSE <<>>)
           EXCEPT !.originsKind = ok, !.behaviorsKind = bk, !.hasVersion = v]) :
     ok \in {"undefined", "null", "false", "emptyString", "zero", "string", "number",
             "array", "object"},
     bk \in {"undefined", "null", "false", "emptyString", "zero", "string", "object",
             "array"},
     hasDefault \in BOOLEAN, v \in BOOLEAN}

\* Copy entries of the s3 origin: paths with the build-root prefix zero, one
\* or two times, and the prefix without its slash.
CopyPaths ==
  { <<"assets">>,
    BuildRootPrefix \o <<"assets">>,
    BuildRootPrefix \o BuildRootPrefix \o <<"assets">>,
    <<".", "open", "-", "next">> }

CopyEntries ==
  {[from |-> p, to |-> e.to, cached |-> e.cached, versionedSubDir |-> e.versionedSubDir] :
     p \in CopyPaths,
     e \in { [to |-> "/", cached |-> FALSE, versionedSubDir |-> "undefined"],
              [to |-> "_cache", cached |-> TRUE, versionedSubDir |-> "_next"] }} \cup
  {[from |-> <<"assets">>, to |-> "", cached |-> FALSE, versionedSubDir |-> "undefined"]}

CopyBuilds ==
  {[file |-> FileOf(Manifest(<<[S3Entry EXCEPT !.copy = copy], DefaultEntry, ImageEntry>>,
                             StdBehaviors)),
    props |-> DefaultProps] : copy \in SeqsUpTo(CopyEntries, MaxCopyEntries)}

\* Build directories and copy paths that path.join has to normalize: an
\* absolute directory with a trailing slash, one with a '..' segment, the
\* empty string; paths with './', '../', a trailing slash, the build-root
\* prefix, and the empty path.
OpenNextPaths ==
  { <<".", "open", "-", "next">>,
    <<"/", "app", "/", ".", "open", "-", "next", "/">>,
    <<"build", "/", ".", ".", "/", ".", "open", "-", "next">>,
    <<>> }

JoinedPaths ==
  { <<"assets">>,
    <<".", "/", "assets">>,
    <<"assets", "/">>,
    <<".", ".", "/", "public">>,
    BuildRootPrefix \o <<"assets">>,
    <<>> }

PathBuilds ==
  {[file |-> FileOf(Manifest(<<[S3Entry EXCEPT !.copy =
                                  <<[from |-> from, to |-> "/", cached |-> FALSE,
                                     versionedSubDir |-> "undefined"]>>],
                               DefaultEntry, ImageEntry>>, StdBehaviors)),
    props |-> [DefaultProps EXCEPT !.openNextPath = dir]] :
     dir \in OpenNextPaths, from \in JoinedPaths}

\* Manifests with zero, one or two edge functions, with and without a
\* behavior that references one.
EdgeBuilds ==
  {[file |-> FileOf([Manifest(StdOrigins(<<>>), behaviors) EXCEPT !.edgeFunctions = ef]),
    props |-> DefaultProps] :
     ef \in {<<>>, <<"middleware">>, <<"middleware", "geo">>},
     behaviors \in {StdBehaviors, <<Behavior("a/*", NoOrigin)>> \o StdBehaviors}}

\* Manifests and caller rules that use the name '__proto__' as a pattern or
\* as an origin key, and a manifest with an array-index origin key (the
\* parsed object lists it first).
ProtoBuilds ==
  {[file |-> FileOf(Manifest(StdOrigins(<<Origin(<<"api">>, "function")>>),
                             <<Behavior(ProtoName, o)>> \o StdBehaviors)),
    props |-> DefaultProps] : o \in {S3Key, ImageKey, <<"api">>}} \cup
  {[file |-> FileOf(Manifest(StdOrigins(<<Origin(<<"api">>, "function")>>), StdBehaviors)),
    props |-> [DefaultProps EXCEPT
                 !.distribution.additionalBehaviors =
                    (ProtoName :> CallerBehavior(ALLOW_ALL))]]} \cup
  {[file |-> FileOf(Manifest(StdOrigins(splits), StdBehaviors)),
    props |-> DefaultProps] :
     splits \in {<<Origin(ProtoKey, "function")>>,
                 <<Origin(<<"api">>, "function"), Origin(ProtoKey, "function")>>}} \cup
  {[file |-> FileOf(Manifest(<<Origin(<<"1">>, "function")>> \o
                             StdOrigins(<<Origin(<<"b">>, "function")>>), StdBehaviors)),
    props |-> DefaultProps]}

\* Manifests with a split compute origin whose key is a built-in role suffix.
RoleKeyBuilds ==
  {[file |-> FileOf(Manifest(StdOrigins(<<Origin(<<k>>, "function")>>), StdBehaviors)),
    props |-> [DefaultProps EXCEPT !.alarms = [enabled |-> on]]] :
     k \in {"server", "revalidation"}, on \in BOOLEAN}

\* Accepted-looking manifests whose origins.default has each origin type.
DefaultTypeFiles ==
  {FileOf(Manifest(<<S3Entry, [DefaultEntry EXCEPT !.type = t], ImageEntry>>, StdBehaviors)) :
     t \in {"function", "ecs", "s3"}}

\* Feature flags from both sources, and one function override.
FlagBuilds ==
  {[file |-> FileOf([Manifest(StdOrigins(splits), StdBehaviors) EXCEPT
                       !.disableTagCache = dtc, !.disableIncrementalCache = dic,
                       !.initializationFunction = init]),
    props |-> WithOverride([DefaultProps EXCEPT
                              !.tagCache = [disabled |-> cd, existingTable |-> et]], o)] :
     splits \in {<<>>, <<Origin(<<"api">>, "function")>>},
     dtc \in Tri, dic \in Tri, init \in {"undefined", "null", "object"},
     cd \in Tri, et \in BOOLEAN,
     o \in {x \in Overrides : ~x.opts.existingHasAddEnvironment}}

\* Manifests with every combination of non-reserved origins.
SplitBuilds ==
  {[file |-> FileOf([Manifest(IF std THEN StdOrigins(splits) ELSE <<DefaultEntry>> \o splits,
                              StdBehaviors)
                     EXCEPT !.edgeFunctions = IF std THEN <<>> ELSE <<"middleware">>]),
    props |-> WithOverride(DefaultProps, o)] :
     splits \in SplitSeqs, std \in BOOLEAN,
     o \in {x \in Overrides : x.opts.environment = EmptyMap}}

\* Manifests with every short behavior list, with and without caller rules.
RoutingSetups ==
  { [origins |-> StdOrigins(<<>>), callerRules |-> EmptyMap] } \cup
  { [origins |-> StdOrigins(<<Origin(<<"api">>, "function")>>), callerRules |-> cb] :
      cb \in {c \in CallerBehaviorSets : Cardinality(DOMAIN c) # 1} } \cup
  { [origins |-> <<DefaultEntry, Origin(<<"api">>, "s3")>>, callerRules |-> EmptyMap] }

RoutingBuilds ==
  {[file |-> FileOf(Manifest(setup.origins, behaviors)),
    props |-> [DefaultProps EXCEPT
                 !.distribution.additionalBehaviors = setup.callerRules]] :
     setup \in RoutingSetups,
     behaviors \in SeqsUpTo(BehaviorUniverse, MaxBehaviors)}

\* The optional components: WAF, logs, alarms, DNS, warmer, own bucket, prefix.
OptionalBuilds ==
  {[file |-> FileOf(Manifest(StdOrigins(<<Origin(<<"api">>, "function")>>), StdBehaviors)),
    props |-> [DefaultProps EXCEPT
                 !.waf = [enabled |-> we, existingWebAclArn |-> arn,
                          additionalRules |-> IF arn THEN <<>> ELSE <<"CallerRule">>]]] :
     we \in Tri, arn \in BOOLEAN} \cup
  {[file |-> FileOf(Manifest(StdOrigins(<<Origin(<<"api">>, "function")>>), StdBehaviors)),
    props |-> [DefaultProps EXCEPT
                 !.prefix = IF own THEN [defined |-> TRUE, value |-> <<"myapp">>] ELSE @,
                 !.assetsBucket = own,
                 !.cloudfrontLogs = [enabled |-> on, logBucket |-> own,
                                     functionOptions |->
                                       IF own THEN WithEnv(ForwarderEnv) ELSE NoOptions],
                 !.revalidation = [functionOptions |-> NoOptions, encryptionKey |-> own],
                 !.alarms = [enabled |-> on],
                 !.warmer = [enabled |-> on, functionOptions |-> NoOptions],
                 !.dns = [defined |-> dns # "undefined",
                          recordNamesDefined |-> dns = "names",
                          recordNames |-> IF dns = "names"
                                          THEN <<"example.com", "www.example.com">>
                                          ELSE <<>>,
                          zoneName |-> "example.com"],
                 !.distribution.domainNames =
                    IF dns = "zone" THEN <<"www.example.com">> ELSE <<>>]] :
     own \in BOOLEAN, on \in BOOLEAN, dns \in {"undefined", "names", "zone"}} \cup
  {[file |-> FileOf(Manifest(StdOrigins(<<Origin(<<"api">>, "function")>>), StdBehaviors)),
    props |-> [DefaultProps EXCEPT !.assetsRemovalPolicy = rp]] :
     rp \in RemovalPolicies} \cup
  {[file |-> FileOf(Manifest(StdOrigins(<<Origin(<<"api">>, "function")>>), StdBehaviors)),
    props |-> [DefaultProps EXCEPT !.assetsBucket = TRUE, !.assetsRemovalPolicy = "RETAIN"]]}

Builds ==
  {[file |-> f, props |-> DefaultProps] : f \in ReaderFiles \cup DefaultTypeFiles} \cup
  FlagBuilds \cup SplitBuilds \cup RoutingBuilds \cup OptionalBuilds \cup CopyBuilds \cup
  EdgeBuilds \cup RoleKeyBuilds \cup ProtoBuilds \cup PathBuilds

\* ───────────────────────── state of a build ─────────────────────────────
VARIABLES
  file,                 \* content of <openNextPath>/open-next.output.json
  props,                \* OpenNextCdkProps given by the caller
  pc,                   \* the construction step that runs next
  error,                \* what the constructor threw, if it did
  manifest,             \* the manifest readManifest returned
  tagCacheTable,        \* this.tagCacheTable
  waf,                  \* the Waf component (webAclArn, rules)
  bucket,               \* this.bucket
  bucketConfig,         \* resource policy statements and tags of the assets bucket
  revalidationQueue,    \* this.revalidationQueue
  fns,                  \* every Lambda function of the graph, by construct id
  serverFunctions,      \* this.serverFunctions, in insertion order
  serverFunctionUrls,   \* serverFunctionUrls, in insertion order
  splitIdx,             \* position of the split-function loop
  nodeIds,              \* ids of the constructs created under the root
  resources,            \* CloudFormation resources created so far
  originMap,            \* the originMap captured by the OPEN_NEXT_ORIGIN thunk
  warnings,             \* annotations added to the construct
  seederTimestamp,      \* deployTimestamp of the seeder custom resource
  logBucket,            \* cloudfrontLogs.logBucket
  distribution,         \* the distribution (default and additional behaviors)
  deployments,          \* bucket deployments of the asset upload
  alarms,               \* id and alarmName of the alarms
  dnsRecords,           \* Route 53 records
  outputs,              \* CfnOutputs
  template              \* environment values resolved at synthesis

vars ==
  << file, props, pc, error, manifest, tagCacheTable, waf, bucket, bucketConfig,
     revalidationQueue, fns, serverFunctions, serverFunctionUrls, splitIdx, nodeIds, resources, originMap,
     warnings, seederTimestamp, logBucket, distribution, deployments, alarms,
     dnsRecords, outputs, template >>

MaxClock == 2
Clock == 1..MaxClock

NoError == [status |-> "none", field |-> "none"]

NoDistribution ==
  [ok |-> FALSE, defaultBehavior |-> EmptyMap, additionalBehaviors |-> EmptyMap,
   webAclId |-> "undefined", enableLogging |-> FALSE, domainNames |-> <<>>]

\* What the constructs of the build have attached to the assets bucket. A
\* bucket the caller supplies is a reference: nothing is attached to it.
NoBucketConfig ==
  [removalPolicy |-> "undefined", autoDeleteObjects |-> FALSE, policy |-> {}, tags |-> {}]

\* new s3.Bucket(this, 'AssetsBucket', { enforceSSL: true, removalPolicy,
\* autoDeleteObjects }): removalPolicy is the caller's assetsRemovalPolicy or
\* DESTROY, autoDeleteObjects is true exactly when that is DESTROY. The
\* bucket policy starts with the statement that denies insecure transport;
\* with autoDeleteObjects it also has the statement for the auto-delete
\* handler and the bucket carries the auto-delete tag.
CreatedBucketConfig(assetsRemovalPolicy) ==
  LET removalPolicy == IF assetsRemovalPolicy = "undefined" THEN "DESTROY"
                       ELSE assetsRemovalPolicy
      autoDeleteObjects == removalPolicy = "DESTROY"
  IN [removalPolicy |-> removalPolicy,
      autoDeleteObjects |-> autoDeleteObjects,
      policy |-> {"DenyInsecureTransport"} \cup
                 (IF autoDeleteObjects THEN {"AutoDeleteObjectsHandler"} ELSE {}),
      tags |-> IF autoDeleteObjects THEN {<<"aws-cdk:auto-delete-objects">>} ELSE {}]

\* S3BucketOrigin.withOriginAccessControl(bucket): when the distribution
\* binds the origin (a rule uses it), a statement that lets the distribution
\* read is added to the policy of a bucket created by the build.
S3OriginBound(d) ==
  \E p \in DOMAIN d.additionalBehaviors : d.additionalBehaviors[p].origin.kind = "s3"

WithOriginAccessControl(config, bucketHandle, d) ==
  IF bucketHandle = "created" /\ S3OriginBound(d)
  THEN [config EXCEPT !.policy = @ \cup {"AllowCloudFrontServicePrincipalReadOnly"}]
  ELSE config

\* new BucketDeployment(..., { destinationBucket }): each deployment tags a
\* bucket created by the build as owned by its custom resource.
WithDeploymentTags(config, bucketHandle, deploys) ==
  IF bucketHandle = "created"
  THEN [config EXCEPT !.tags = @ \cup {<<"aws-cdk:cr-owned">> \o deploys[i].id :
                                         i \in 1..Len(deploys)}]
  ELSE config

Res(node, id, type) == [node |-> node, id |-> id, type |-> type]

Prefix == IF props.prefix.defined THEN props.prefix.value ELSE DEFAULT_PREFIX

\* Variant: only the caller's switch is read.
DisableTagCache_CallerOnly == props.tagCache.disabled = "true"

DisableTagCache ==
  props.tagCache.disabled = "true" \/ manifest.disableTagCache = "true"

DisableIncrementalCache == manifest.disableIncrementalCache = "true"

\* Variant: only the manifest is read.
SeederEligible_ManifestOnly == hasInitializationFunction(manifest)

SeederEligible == tagCacheTable # "undefined" /\ hasInitializationFunction(manifest)

ServerFunctionId(originKey) ==
  IF originKey = DefaultKey THEN <<"ServerFunction">>
  ELSE <<"ServerFunction", "-">> \o originKeyToSuffix(originKey)

\* The resources a function component adds: the function (unless the caller
\* supplied an existing one) and, for functions behind CloudFront, its URL.
FunctionResources(id, fn, withUrl) ==
  (IF fn.existing THEN {} ELSE {Res(id, "Function", "AWS::Lambda::Function")}) \cup
  (IF withUrl THEN {Res(id, "FunctionUrl", "AWS::Lambda::Url")} ELSE {})

Init ==
  /\ \E b \in Builds : file = b.file /\ props = b.props
  /\ pc = "ReadManifest"
  /\ error = NoError
  /\ manifest = EmptyObject
  /\ tagCacheTable = "undefined"
  /\ waf = [webAclArn |-> "undefined", rules |-> <<>>]
  /\ bucket = "undefined"
  /\ bucketConfig = NoBucketConfig
  /\ revalidationQueue = "undefined"
  /\ fns = EmptyMap
  /\ serverFunctions = <<>>
  /\ serverFunctionUrls = <<>>
  /\ splitIdx = 1
  /\ nodeIds = {}
  /\ resources = {}
  /\ originMap = <<>>
  /\ warnings = <<>>
  /\ seederTimestamp = 0
  /\ logBucket = "undefined"
  /\ distribution = NoDistribution
  /\ deployments = <<>>
  /\ alarms = <<>>
  /\ dnsRecords = <<>>
  /\ outputs = <<>>
  /\ template = [synthesized |-> FALSE, openNextOrigin |-> <<>>, produceCalls |-> 0]

\* const manifest = readManifest(props.openNextPath): a throw ends the build.
ReadManifest ==
  /\ pc = "ReadManifest"
  /\ LET r == readManifest(file)
     IN IF r.status = "ok"
        THEN manifest' = file.obj /\ pc' = "TagCache" /\ error' = error
        ELSE manifest' = manifest /\ pc' = "failed" /\ error' = r
  /\ UNCHANGED << file, props, bucketConfig, tagCacheTable, waf, bucket, revalidationQueue, fns,
                  serverFunctions, serverFunctionUrls, splitIdx, nodeIds, resources,
                  originMap, warnings, seederTimestamp, logBucket, distribution,
                  deployments, alarms, dnsRecords, outputs, template >>

\* 1. Tag cache (DynamoDB).
CreateTagCache ==
  /\ pc = "TagCache"
  /\ LET options == IF DisableTagCache THEN [props.tagCache EXCEPT !.disabled = "true"]
                    ELSE props.tagCache
     IN /\ tagCacheTable' = TagCacheTable(options)
        /\ resources' = resources \cup
             (IF TagCacheTable(options) = "created"
              THEN {Res(<<"TagCache">>, "Table", "AWS::DynamoDB::Table")} ELSE {})
  /\ nodeIds' = nodeIds \cup {<<"TagCache">>}
  /\ pc' = "Waf"
  /\ UNCHANGED << file, props, bucketConfig, error, manifest, waf, bucket, revalidationQueue, fns,
                  serverFunctions, serverFunctionUrls, splitIdx, originMap, warnings,
                  seederTimestamp, logBucket, distribution, deployments, alarms,
                  dnsRecords, outputs, template >>

\* 2. WAF.
CreateWaf ==
  /\ pc = "Waf"
  /\ waf' = Waf(props.waf)
  /\ resources' = resources \cup
       (IF Waf(props.waf).webAclArn = "created"
        THEN {Res(<<"Waf">>, "WebACL", "AWS::WAFv2::WebACL")} ELSE {})
  /\ nodeIds' = nodeIds \cup {<<"Waf">>}
  /\ pc' = "AssetsBucket"
  /\ UNCHANGED << file, props, bucketConfig, error, manifest, tagCacheTable, bucket, revalidationQueue,
                  fns, serverFunctions, serverFunctionUrls, splitIdx, originMap, warnings,
                  seederTimestamp, logBucket, distribution, deployments, alarms,
                  dnsRecords, outputs, template >>

\* 3. Assets bucket (createAssetsBucket).
CreateAssetsBucket ==
  /\ pc = "AssetsBucket"
  /\ bucket' = IF props.assetsBucket THEN "existing" ELSE "created"
  /\ bucketConfig' = IF props.assetsBucket THEN NoBucketConfig
                     ELSE CreatedBucketConfig(props.assetsRemovalPolicy)
  /\ resources' = resources \cup
       (IF props.assetsBucket THEN {}
        ELSE {Res(<<"AccessLogBucket">>, "Bucket", "AWS::S3::Bucket"),
              Res(<<"AssetsBucket">>, "Bucket", "AWS::S3::Bucket")})
  /\ nodeIds' = nodeIds \cup
       (IF props.assetsBucket THEN {} ELSE {<<"AccessLogBucket">>, <<"AssetsBucket">>})
  /\ pc' = "Revalidation"
  /\ UNCHANGED << file, props, error, manifest, tagCacheTable, waf, revalidationQueue,
                  fns, serverFunctions, serverFunctionUrls, splitIdx, originMap, warnings,
                  seederTimestamp, logBucket, distribution, deployments, alarms,
                  dnsRecords, outputs, template >>

\* 3. Revalidation (SQS + Lambda).
CreateRevalidation ==
  /\ pc = "Revalidation"
  /\ revalidationQueue' = "created"
  /\ fns' = Assign(fns, <<"Revalidation">> :>
                     Revalidation(Prefix, tagCacheTable, props.revalidation.functionOptions))
  /\ resources' = resources \cup
       (IF props.revalidation.encryptionKey THEN {}
        ELSE {Res(<<"Revalidation">>, "QueueKey", "AWS::KMS::Key")}) \cup
       {Res(<<"Revalidation">>, "DLQ", "AWS::SQS::Queue"),
        Res(<<"Revalidation">>, "Queue", "AWS::SQS::Queue"),
        Res(<<"Revalidation">>, "Function", "AWS::Lambda::Function")}
  /\ nodeIds' = nodeIds \cup {<<"Revalidation">>}
  /\ pc' = "TagCacheSeeder"
  /\ UNCHANGED << file, props, bucketConfig, error, manifest, tagCacheTable, waf, bucket,
                  serverFunctions, serverFunctionUrls, splitIdx, originMap, warnings,
                  seederTimestamp, logBucket, distribution, deployments, alarms,
                  dnsRecords, outputs, template >>

\* 3b. Tag cache seeder; its custom resource carries Date.now().
CreateTagCacheSeeder ==
  /\ pc = "TagCacheSeeder"
  /\ IF SeederEligible
     THEN /\ fns' = Assign(fns, <<"TagCacheSeeder">> :>
                 TagCacheSeeder(Prefix, props.initializationFunction.functionOptions))
          /\ resources' = resources \cup
               {Res(<<"TagCacheSeeder">>, "Function", "AWS::Lambda::Function"),
                Res(<<"TagCacheSeeder">>, "Resource", "AWS::CloudFormation::CustomResource")}
          /\ nodeIds' = nodeIds \cup {<<"TagCacheSeeder">>}
          /\ \E now \in Clock : seederTimestamp' = now
     ELSE UNCHANGED << fns, resources, nodeIds, seederTimestamp >>
  /\ pc' = "EdgeFunctionsWarning"
  /\ UNCHANGED << file, props, bucketConfig, error, manifest, tagCacheTable, waf, bucket,
                  revalidationQueue, serverFunctions, serverFunctionUrls, splitIdx,
                  originMap, warnings, logBucket, distribution, deployments, alarms,
                  dnsRecords, outputs, template >>

\* Variant: the warning follows the behaviors that reference an edge function.
HasEdgeFunctions_FromBehaviors(m) ==
  \E i \in 1..Len(m.behaviors) : m.behaviors[i].edgeFunction # "undefined"

\* manifest.edgeFunctions && Object.keys(manifest.edgeFunctions).length > 0
HasEdgeFunctions(m) == Len(m.edgeFunctions) > 0

\* 3c. Edge functions warning.
EdgeFunctionsWarning ==
  /\ pc = "EdgeFunctionsWarning"
  /\ warnings' = IF HasEdgeFunctions(manifest)
                 THEN Append(warnings, "@open-next-cdk/edge-functions-unsupported")
                 ELSE warnings
  /\ pc' = "ServerFunction"
  /\ UNCHANGED << file, props, bucketConfig, error, manifest, tagCacheTable, waf, bucket,
                  revalidationQueue, fns, serverFunctions, serverFunctionUrls, splitIdx,
                  nodeIds, resources, originMap, seederTimestamp, logBucket, distribution,
                  deployments, alarms, dnsRecords, outputs, template >>

\* 4. Default server function.
CreateDefaultServer ==
  /\ pc = "ServerFunction"
  /\ LET fn == ServerFunction(Prefix, DefaultKey, OriginOf(manifest, DefaultKey),
                              tagCacheTable, props.serverFunction, DisableIncrementalCache)
         id == ServerFunctionId(DefaultKey)
     IN /\ fns' = Assign(fns, id :> fn)
        /\ resources' = resources \cup FunctionResources(id, fn, TRUE)
        /\ nodeIds' = nodeIds \cup {id}
        /\ serverFunctions' = Append(serverFunctions, [key |-> DefaultKey, fn |-> id])
        /\ serverFunctionUrls' = Append(serverFunctionUrls, [key |-> DefaultKey, url |-> id])
  /\ splitIdx' = 1
  /\ pc' = "SplitFunctions"
  /\ UNCHANGED << file, props, bucketConfig, error, manifest, tagCacheTable, waf, bucket,
                  revalidationQueue, originMap, warnings, seederTimestamp, logBucket,
                  distribution, deployments, alarms, dnsRecords, outputs, template >>

\* One iteration of the loop over splitOriginKeys. A second construct with an
\* id that the scope already holds makes the Construct constructor throw.
CreateSplitServer ==
  /\ pc = "SplitFunctions"
  /\ splitIdx <= Len(getSplitFunctionOrigins(manifest))
  /\ LET originKey == getSplitFunctionOrigins(manifest)[splitIdx]
         origin == OriginOf(manifest, originKey)
         id == ServerFunctionId(originKey)
         fn == ServerFunction(Prefix, originKey, origin, tagCacheTable,
                              OptionsFor(props.splitFunctions, originKey),
                              DisableIncrementalCache)
     IN IF origin.type # "function"
        THEN /\ splitIdx' = splitIdx + 1
             /\ UNCHANGED << pc, error, fns, resources, nodeIds, serverFunctions,
                             serverFunctionUrls >>
        ELSE IF id \in nodeIds
        THEN /\ pc' = "failed"
             /\ error' = [status |-> "Error", field |-> "duplicateConstructId"]
             /\ UNCHANGED << splitIdx, fns, resources, nodeIds, serverFunctions,
                             serverFunctionUrls >>
        ELSE /\ fns' = Assign(fns, id :> fn)
             /\ resources' = resources \cup FunctionResources(id, fn, TRUE)
             /\ nodeIds' = nodeIds \cup {id}
             /\ serverFunctions' = Append(serverFunctions, [key |-> originKey, fn |-> id])
             /\ serverFunctionUrls' =
                  Append(serverFunctionUrls, [key |-> originKey, url |-> id])
             /\ splitIdx' = splitIdx + 1
             /\ UNCHANGED << pc, error >>
  /\ UNCHANGED << file, props, bucketConfig, manifest, tagCacheTable, waf, bucket, revalidationQueue,
                  originMap, warnings, seederTimestamp, logBucket, distribution,
                  deployments, alarms, dnsRecords, outputs, template >>

\* The entries of serverFunctionUrls other than "default", as { key: { url } }:
\* originMap[key] = {...} on an object created by {}, read back in own-key
\* order.
OriginMapOf(urls) ==
  OwnPropertyOrder(SelectSeq(urls, LAMBDA e : e.key # DefaultKey /\ e.key # ProtoKey))

\* Inject OPEN_NEXT_ORIGIN into the default server function: addEnvironment
\* with a lazy string that stringifies the captured originMap at synthesis.
\* When the caller supplied the default function as existingFunction and
\* that object has no addEnvironment (an imported lambda.IFunction), the
\* cast call throws a TypeError and the constructor ends there; when it has
\* the method, the variable is set on the caller's function.
InjectOriginMap ==
  /\ pc = "SplitFunctions"
  /\ splitIdx > Len(getSplitFunctionOrigins(manifest))
  /\ IF Len(getSplitFunctionOrigins(manifest)) = 0
     THEN /\ pc' = "ImageOptimization"
          /\ UNCHANGED << originMap, fns, error >>
     ELSE IF /\ fns[ServerFunctionId(DefaultKey)].existing
             /\ ~props.serverFunction.existingHasAddEnvironment
       THEN /\ pc' = "failed"
            /\ error' = [status |-> "TypeError", field |-> "addEnvironment"]
            /\ UNCHANGED << originMap, fns >>
     ELSE /\ originMap' = OriginMapOf(serverFunctionUrls)
          /\ fns' = [fns EXCEPT ![ServerFunctionId(DefaultKey)].env =
                       Assign(@, "OPEN_NEXT_ORIGIN" :> "Lazy(JSON.stringify(originMap))")]
          /\ pc' = "ImageOptimization"
          /\ error' = error
  /\ UNCHANGED << file, props, bucketConfig, manifest, tagCacheTable, waf, bucket,
                  revalidationQueue, serverFunctions, serverFunctionUrls, splitIdx,
                  nodeIds, resources, warnings, seederTimestamp, logBucket, distribution,
                  deployments, alarms, dnsRecords, outputs, template >>

\* 5. Image optimization.
CreateImageOptimization ==
  /\ pc = "ImageOptimization"
  /\ LET fn == ImageOptimization(Prefix, props.imageOptimizationFunction,
                                 getS3OriginPath(manifest))
     IN /\ fns' = Assign(fns, <<"ImageOptimization">> :> fn)
        /\ resources' = resources \cup FunctionResources(<<"ImageOptimization">>, fn, TRUE)
  /\ nodeIds' = nodeIds \cup {<<"ImageOptimization">>}
  /\ pc' = "CloudFrontLogs"
  /\ UNCHANGED << file, props, bucketConfig, error, manifest, tagCacheTable, waf, bucket,
                  revalidationQueue, serverFunctions, serverFunctionUrls, splitIdx,
                  originMap, warnings, seederTimestamp, logBucket, distribution,
                  deployments, alarms, dnsRecords, outputs, template >>

\* 6. CloudFront logs.
CreateCloudFrontLogs ==
  /\ pc = "CloudFrontLogs"
  /\ logBucket' = CloudFrontLogs(props.cloudfrontLogs)
  /\ IF props.cloudfrontLogs.enabled
     THEN /\ fns' = Assign(fns, <<"CloudFrontLogs">> :>
                 [existing |-> FALSE,
                  name |-> resourceName(Prefix, <<"cf", "-", "log", "-", "forwarder">>),
                  env |-> Assign("LOG_GROUP_NAME" :> "logGroup.logGroupName",
                                 props.cloudfrontLogs.functionOptions.environment),
                  grants |-> {"logBucket.grantRead", "logGroup.grantWrite"},
                  invokeMode |-> "none"])
          /\ resources' = resources \cup
               {Res(<<"CloudFrontLogs">>, "ForwarderFunction", "AWS::Lambda::Function")} \cup
               (IF props.cloudfrontLogs.logBucket THEN {}
                ELSE {Res(<<"CloudFrontLogs">>, "LogBucket", "AWS::S3::Bucket")})
     ELSE UNCHANGED << fns, resources >>
  /\ nodeIds' = nodeIds \cup {<<"CloudFrontLogs">>}
  /\ pc' = "Distribution"
  /\ UNCHANGED << file, props, bucketConfig, error, manifest, tagCacheTable, waf, bucket,
                  revalidationQueue, serverFunctions, serverFunctionUrls, splitIdx,
                  originMap, warnings, seederTimestamp, distribution, deployments,
                  alarms, dnsRecords, outputs, template >>

\* 7. CloudFront distribution.
CreateDistribution ==
  /\ pc = "Distribution"
  /\ LET d == DistributionComponent(manifest, serverFunctionUrls, props.distribution,
                                    waf.webAclArn, logBucket, getS3OriginPath(manifest))
     IN IF d.ok
        THEN /\ distribution' = d
             /\ bucketConfig' = WithOriginAccessControl(bucketConfig, bucket, d)
             /\ resources' = resources \cup
                  {Res(<<"Distribution">>, "Distribution", "AWS::CloudFront::Distribution")}
             /\ nodeIds' = nodeIds \cup {<<"Distribution">>}
             /\ pc' = "Assets"
             /\ error' = error
        ELSE /\ pc' = "failed"
             /\ error' = [status |-> "Error", field |-> "missingDefaultServerOrigin"]
             /\ UNCHANGED << distribution, bucketConfig, resources, nodeIds >>
  /\ UNCHANGED << file, props, manifest, tagCacheTable, waf, bucket, revalidationQueue,
                  fns, serverFunctions, serverFunctionUrls, splitIdx, originMap, warnings,
                  seederTimestamp, logBucket, deployments, alarms, dnsRecords, outputs,
                  template >>

\* 8. S3 asset deployment.
DeployAssets ==
  /\ pc = "Assets"
  /\ deployments' = AssetDeployment(props.openNextPath, manifest)
  /\ bucketConfig' = WithDeploymentTags(bucketConfig, bucket,
                                        AssetDeployment(props.openNextPath, manifest))
  /\ manifest' = ManifestAfterGetAssetCopyEntries(manifest)
  /\ nodeIds' = nodeIds \cup {<<"Assets">>}
  /\ pc' = "Alarms"
  /\ UNCHANGED << file, props, error, tagCacheTable, waf, bucket,
                  revalidationQueue, fns, serverFunctions, serverFunctionUrls, splitIdx,
                  resources, originMap, warnings, seederTimestamp, logBucket, distribution,
                  alarms, dnsRecords, outputs, template >>

\* 9. CloudWatch alarms; the second alarm with an id already used makes the
\* constructor throw, after the Alarms construct and the alarms before it
\* were created.
CreateAlarms ==
  /\ pc = "Alarms"
  /\ LET ids == Alarms(Prefix, props.alarms, serverFunctions)
     IN IF \E i, j \in 1..Len(ids) : i # j /\ ids[i].id = ids[j].id
        THEN LET dup == CHOOSE j \in 1..Len(ids) :
                          /\ \E i \in 1..(j - 1) : ids[i].id = ids[j].id
                          /\ \A k \in 1..(j - 1) :
                               ~\E i \in 1..(k - 1) : ids[i].id = ids[k].id
             IN /\ pc' = "failed"
                /\ error' = [status |-> "Error", field |-> "duplicateConstructId"]
                /\ alarms' = SubSeq(ids, 1, dup - 1)
                /\ nodeIds' = nodeIds \cup {<<"Alarms">>}
        ELSE /\ alarms' = ids
             /\ nodeIds' = nodeIds \cup {<<"Alarms">>}
             /\ pc' = "Dns"
             /\ error' = error
  /\ UNCHANGED << file, props, bucketConfig, manifest, tagCacheTable, waf, bucket, revalidationQueue,
                  fns, serverFunctions, serverFunctionUrls, splitIdx, resources, originMap,
                  warnings, seederTimestamp, logBucket, distribution, deployments,
                  dnsRecords, outputs, template >>

\* 10. DNS.
CreateDns ==
  /\ pc = "Dns"
  /\ IF props.dns.defined
     THEN /\ dnsRecords' =
               [i \in 1..(2 * Len(Dns(props.dns))) |->
                  [type |-> IF i % 2 = 1 THEN "A" ELSE "AAAA",
                   name |-> Dns(props.dns)[(i + 1) \div 2]]]
          /\ nodeIds' = nodeIds \cup {<<"Dns">>}
     ELSE UNCHANGED << dnsRecords, nodeIds >>
  /\ pc' = "Warmer"
  /\ UNCHANGED << file, props, bucketConfig, error, manifest, tagCacheTable, waf, bucket,
                  revalidationQueue, fns, serverFunctions, serverFunctionUrls, splitIdx,
                  resources, originMap, warnings, seederTimestamp, logBucket, distribution,
                  deployments, alarms, outputs, template >>

\* 11. Warmer.
CreateWarmer ==
  /\ pc = "Warmer"
  /\ IF props.warmer.enabled
     THEN /\ fns' = Assign(fns, <<"Warmer">> :> Warmer(Prefix, props.warmer, serverFunctions))
          /\ resources' = resources \cup
               {Res(<<"Warmer">>, "Function", "AWS::Lambda::Function")}
     ELSE UNCHANGED << fns, resources >>
  /\ nodeIds' = nodeIds \cup {<<"Warmer">>}
  /\ pc' = "Outputs"
  /\ UNCHANGED << file, props, bucketConfig, error, manifest, tagCacheTable, waf, bucket,
                  revalidationQueue, serverFunctions, serverFunctionUrls, splitIdx,
                  originMap, warnings, seederTimestamp, logBucket, distribution,
                  deployments, alarms, dnsRecords, outputs, template >>

\* Outputs; the constructor returns.
CreateOutputs ==
  /\ pc = "Outputs"
  /\ outputs' = <<"DistributionDomainName", "DistributionId", "BucketName">>
  /\ pc' = "constructed"
  /\ UNCHANGED << file, props, bucketConfig, error, manifest, tagCacheTable, waf, bucket,
                  revalidationQueue, fns, serverFunctions, serverFunctionUrls, splitIdx,
                  nodeIds, resources, originMap, warnings, seederTimestamp, logBucket,
                  distribution, deployments, alarms, dnsRecords, template >>

\* JSON.stringify of the origin map, as the list of its members in insertion
\* order, and the keys of the object JSON.parse gives back for that text.
JSONStringify(map) == [i \in 1..Len(map) |-> <<map[i].key, <<"url", map[i].url>>>>]

JSONParseKeys(text) == {text[i][1] : i \in 1..Len(text)}

\* Synthesis resolves the lazy OPEN_NEXT_ORIGIN value of the default function:
\* cdk.Lazy.string takes a stable producer, called on the first resolution and
\* cached from then on.
Synth ==
  /\ pc = "constructed"
  /\ template' =
       [synthesized |-> TRUE,
        openNextOrigin |->
          IF "OPEN_NEXT_ORIGIN" \in DOMAIN fns[ServerFunctionId(DefaultKey)].env
             /\ fns[ServerFunctionId(DefaultKey)].env["OPEN_NEXT_ORIGIN"] =
                  "Lazy(JSON.stringify(originMap))"
          THEN JSONStringify(originMap) ELSE <<>>,
        produceCalls |->
          IF "OPEN_NEXT_ORIGIN" \in DOMAIN fns[ServerFunctionId(DefaultKey)].env
             /\ fns[ServerFunctionId(DefaultKey)].env["OPEN_NEXT_ORIGIN"] =
                  "Lazy(JSON.stringify(originMap))"
          THEN template.produceCalls + 1 ELSE template.produceCalls]
  /\ pc' = "done"
  /\ UNCHANGED << file, props, bucketConfig, error, manifest, tagCacheTable, waf, bucket,
                  revalidationQueue, fns, serverFunctions, serverFunctionUrls, splitIdx,
                  nodeIds, resources, originMap, warnings, seederTimestamp, logBucket,
                  distribution, deployments, alarms, dnsRecords, outputs >>

Next ==
  \/ ReadManifest
  \/ CreateTagCache
  \/ CreateWaf
  \/ CreateAssetsBucket
  \/ CreateRevalidation
  \/ CreateTagCacheSeeder
  \/ EdgeFunctionsWarning
  \/ CreateDefaultServer
  \/ CreateSplitServer
  \/ InjectOriginMap
  \/ CreateImageOptimization
  \/ CreateCloudFrontLogs
  \/ CreateDistribution
  \/ DeployAssets
  \/ CreateAlarms
  \/ CreateDns
  \/ CreateWarmer
  \/ CreateOutputs
  \/ Synth

Spec == Init /\ [][Next]_vars

\* ───────────────────────── properties ──────────────────────────────────
\* The reader returned a manifest and the build went on with it.
Accepted == pc # "ReadManifest" /\ readManifest(file).status = "ok"

TagCacheDisabledBySource ==
  props.tagCache.disabled = "true" \/ manifest.disableTagCache = "true"

SeederExists == <<"TagCacheSeeder">> \in DOMAIN fns

AfterSeederStep == Accepted /\ pc \notin {"TagCache", "Waf", "AssetsBucket", "Revalidation",
                                          "TagCacheSeeder"}

\* The environment map the caller gave for the function with this id.
CallerEnvironment(id) ==
  IF id = <<"ServerFunction">> THEN props.serverFunction.environment
  ELSE IF id = <<"Revalidation">> THEN props.revalidation.functionOptions.environment
  ELSE IF id = <<"TagCacheSeeder">>
    THEN props.initializationFunction.functionOptions.environment
  ELSE IF id = <<"ImageOptimization">> THEN props.imageOptimizationFunction.environment
  ELSE IF id = <<"Warmer">> THEN props.warmer.functionOptions.environment
  ELSE IF id = <<"CloudFrontLogs">> THEN props.cloudfrontLogs.functionOptions.environment
  ELSE IF \E e \in Range(serverFunctions) : e.fn = id
    THEN OptionsFor(props.splitFunctions,
                    (CHOOSE e \in Range(serverFunctions) : e.fn = id).key).environment
  ELSE EmptyMap

NoTableAtAll ==
  /\ tagCacheTable = "undefined"
  /\ ~\E r \in resources : r.type = "AWS::DynamoDB::Table"
  /\ \A id \in DOMAIN fns : "table.grantReadWriteData" \notin fns[id].grants

\* C1 (as stated): when either source disables the tag cache, there is no
\* table resource, no table handle, and no function of the build carries the
\* CACHE_DYNAMO_TABLE variable, whatever else the caller overrides.
C1_NoTableVariableWhenDisabled_AsStated ==
  (Accepted /\ TagCacheDisabledBySource) =>
    /\ NoTableAtAll
    /\ \A id \in DOMAIN fns : "CACHE_DYNAMO_TABLE" \notin DOMAIN fns[id].env

\* C1 (amended): when either source disables the tag cache, there is no table
\* resource, no table handle and no table grant, and a function carries the
\* CACHE_DYNAMO_TABLE variable only if the caller's own environment map for
\* that function supplies it, with the caller's value.
C1_NoTableVariableWhenDisabled ==
  (Accepted /\ TagCacheDisabledBySource) =>
    /\ NoTableAtAll
    /\ \A id \in DOMAIN fns :
         "CACHE_DYNAMO_TABLE" \in DOMAIN fns[id].env =>
           /\ "CACHE_DYNAMO_TABLE" \in DOMAIN CallerEnvironment(id)
           /\ fns[id].env["CACHE_DYNAMO_TABLE"] = CallerEnvironment(id)["CACHE_DYNAMO_TABLE"]

\* A finished build where the manifest alone disables the tag cache although
\* the caller left it on and supplied an existing table; a split function exists.
C1_Witness ==
  /\ pc = "done"
  /\ manifest.disableTagCache = "true"
  /\ props.tagCache.disabled = "false"
  /\ props.tagCache.existingTable
  /\ Len(serverFunctions) = 2
  /\ <<"Revalidation">> \in DOMAIN fns

\* C2: once the seeder step has run, the seeder function and its custom
\* resource exist if and only if neither source disables the tag cache and
\* additionalProps.initializationFunction is neither undefined nor null;
\* before that step there is no seeder.
C2_SeederIffEligible ==
  /\ AfterSeederStep =>
       (SeederExists <=>
          (~TagCacheDisabledBySource
           /\ manifest.initializationFunction \notin {"undefined", "null"}))
  /\ SeederExists <=>
       (\E r \in resources : r.node = <<"TagCacheSeeder">>
                             /\ r.type = "AWS::CloudFormation::CustomResource")
  /\ SeederExists <=>
       (\E r \in resources : r.node = <<"TagCacheSeeder">>
                             /\ r.type = "AWS::Lambda::Function")
  /\ ~AfterSeederStep => ~SeederExists

\* A finished build with a seeder over a caller-supplied table.
C2_Witness ==
  /\ pc = "done"
  /\ SeederExists
  /\ props.tagCache.existingTable
  /\ manifest.disableTagCache = "false"

\* The non-reserved origin keys of the manifest whose type is "function".
ComputeSplitKeys ==
  {manifest.origins[i].key : i \in {j \in 1..Len(manifest.origins) :
       manifest.origins[j].type = "function"
       /\ manifest.origins[j].key \notin {<<"default">>, <<"s3">>, <<"imageOptimizer">>}}}

\* C3 (as stated): a build of a manifest with N compute-typed non-reserved
\* origins ends with N split functions: serverFunctions has N+1 entries (the
\* default and those N keys), there are N+2 function URLs, and the resolved
\* OPEN_NEXT_ORIGIN of the default function has exactly those N keys.
C3_SplitFunctionsPerComputeOrigin_AsStated ==
  (Accepted /\ pc \in {"failed", "done"}) =>
    /\ Len(serverFunctions) = Cardinality(ComputeSplitKeys) + 1
    /\ {e.key : e \in Range(serverFunctions)} = ComputeSplitKeys \cup {<<"default">>}
    /\ Cardinality({r \in resources : r.type = "AWS::Lambda::Url"}) =
         Cardinality(ComputeSplitKeys) + 2
    /\ "OPEN_NEXT_ORIGIN" \in DOMAIN fns[<<"ServerFunction">>].env =>
         JSONParseKeys(template.openNextOrigin) = ComputeSplitKeys

BucketVarNames == {"CACHE_BUCKET_NAME", "CACHE_BUCKET_KEY_PREFIX", "CACHE_BUCKET_REGION"}

QueueVarNames == {"REVALIDATION_QUEUE_URL", "REVALIDATION_QUEUE_REGION"}

\* C4 (as stated): in a finished build, when the manifest sets
\* disableIncrementalCache to true every default and split function has no
\* cache-bucket variable and no bucket read/write grant but has the queue
\* variables, and the revalidation consumer has the bucket variables and the
\* grant; otherwise every default and split function has the bucket
\* variables and the grant.
C4_IncrementalCacheGating_AsStated ==
  (Accepted /\ pc = "done") =>
    /\ manifest.disableIncrementalCache = "true" =>
         /\ \A e \in Range(serverFunctions) :
              /\ BucketVarNames \cap DOMAIN fns[e.fn].env = {}
              /\ "bucket.grantReadWrite" \notin fns[e.fn].grants
              /\ QueueVarNames \subseteq DOMAIN fns[e.fn].env
         /\ BucketVarNames \subseteq DOMAIN fns[<<"Revalidation">>].env
         /\ "bucket.grantReadWrite" \in fns[<<"Revalidation">>].grants
    /\ manifest.disableIncrementalCache # "true" =>
         \A e \in Range(serverFunctions) :
           /\ BucketVarNames \subseteq DOMAIN fns[e.fn].env
           /\ "bucket.grantReadWrite" \in fns[e.fn].grants

AllMethods == {"GET", "HEAD", "OPTIONS", "PUT", "PATCH", "POST", "DELETE"}

CallerRules == props.distribution.additionalBehaviors

\* The origin a behavior names resolves to the static-assets role, the
\* image-optimizer role or a compute function the build created.
Resolves(origin) ==
  \/ origin = <<"s3">>
  \/ origin = <<"imageOptimizer">>
  \/ \E e \in Range(serverFunctionUrls) : e.key = origin

\* The manifest behavior a manifest-derived rule for this pattern comes from:
\* the last behavior with the pattern whose origin resolves.
LastResolving(pattern) ==
  manifest.behaviors[
    CHOOSE i \in 1..Len(manifest.behaviors) :
      /\ manifest.behaviors[i].pattern = pattern
      /\ Resolves(manifest.behaviors[i].origin)
      /\ \A j \in (i + 1)..Len(manifest.behaviors) :
           ~(manifest.behaviors[j].pattern = pattern
             /\ Resolves(manifest.behaviors[j].origin))]

IsStaticRule(rule) ==
  /\ rule.allowedMethods = {"GET", "HEAD"}
  /\ rule.cachePolicy = "CACHING_OPTIMIZED"
  /\ rule.originRequestPolicy = "undefined"
  /\ rule.functionAssociations = {}

\* C5: whenever a build of an accepted manifest produces its routing output,
\* the default rule allows all seven HTTP methods and targets the origin of
\* the default server function, whatever the manifest's catch-all names or
\* omits; the distribution step never fails for lack of a default origin.
C5_DefaultRule ==
  /\ distribution.ok =>
       /\ distribution.defaultBehavior.allowedMethods = AllMethods
       /\ distribution.defaultBehavior.origin.kind = "server"
       /\ distribution.defaultBehavior.origin.key = <<"default">>
       /\ \E e \in Range(serverFunctionUrls) :
            e.key = <<"default">> /\ e.url = <<"ServerFunction">>
       /\ <<"ServerFunction">> \in DOMAIN fns
  /\ error.field # "missingDefaultServerOrigin"
  /\ (Accepted /\ pc \in {"Assets", "Alarms", "Dns", "Warmer", "Outputs", "constructed",
                          "done"}) => distribution.ok

\* A finished build whose manifest's catch-all behavior names the s3 origin.
C5_Witness ==
  /\ pc = "done"
  /\ distribution.ok
  /\ \E b \in Range(manifest.behaviors) : b.pattern = "*" /\ b.origin = <<"s3">>

\* C6 (as stated): every additional rule of the final routing output for
\* whose pattern a manifest behavior names the s3 origin allows exactly
\* {GET, HEAD}, uses CACHING_OPTIMIZED, and has no origin-request policy and
\* no viewer-request hook.
C6_StaticRuleReadOnly_AsStated ==
  distribution.ok =>
    \A p \in DOMAIN distribution.additionalBehaviors :
      (\E b \in Range(manifest.behaviors) : b.pattern = p /\ b.origin = <<"s3">>) =>
        IsStaticRule(distribution.additionalBehaviors[p])

\* C6 (amended): every additional rule of the final routing output that is
\* derived from a manifest behavior naming the s3 origin (its pattern has no
\* caller-supplied rule, and the last manifest behavior for the pattern whose
\* origin resolves names s3) allows exactly {GET, HEAD}, uses
\* CACHING_OPTIMIZED, has no origin-request policy and no viewer-request hook,
\* and targets the bucket origin.
C6_StaticRuleReadOnly ==
  distribution.ok =>
    \A p \in DOMAIN distribution.additionalBehaviors :
      (/\ p \notin DOMAIN CallerRules
       /\ \E b \in Range(manifest.behaviors) : b.pattern = p /\ Resolves(b.origin)
       /\ LastResolving(p).origin = <<"s3">>) =>
        /\ IsStaticRule(distribution.additionalBehaviors[p])
        /\ distribution.additionalBehaviors[p].origin.kind = "s3"

\* A finished build with a manifest-derived s3 rule next to a caller rule for
\* another pattern that the manifest also routes to s3.
C6_Witness ==
  /\ pc = "done"
  /\ "b/*" \in DOMAIN distribution.additionalBehaviors
  /\ "b/*" \notin DOMAIN CallerRules
  /\ \E b \in Range(manifest.behaviors) : b.pattern = "b/*" /\ b.origin = <<"s3">>
  /\ \E b \in Range(manifest.behaviors) : b.pattern = "a/*" /\ b.origin = <<"s3">>
  /\ "a/*" \in DOMAIN CallerRules

\* C7 (as stated; a pattern named '__proto__' that resolves gets no rule):
\* with no caller-supplied rules, the patterns of the additional rules
\* are exactly the patterns of the manifest behaviors that are not '*' or
\* '/*' and whose origin resolves; '*' and '/*' are never additional rules.
C7_AdditionalPatterns_AsStated ==
  (distribution.ok /\ DOMAIN CallerRules = {}) =>
    /\ DOMAIN distribution.additionalBehaviors =
         {b.pattern : b \in {x \in Range(manifest.behaviors) :
                               x.pattern \notin {"*", "/*"} /\ Resolves(x.origin)}}
    /\ "*" \notin DOMAIN distribution.additionalBehaviors
    /\ "/*" \notin DOMAIN distribution.additionalBehaviors

Dropped(behavior) == behavior.origin = <<>> \/ ~Resolves(behavior.origin)

\* C8: a behavior with no origin or with an origin that does not resolve
\* yields no rule and never fails the build: the routing output is the one
\* the manifest without those behaviors gives, every manifest-derived rule
\* has a behavior that is not dropped, and the distribution step succeeds.
C8_UnresolvedBehaviorsDropped ==
  /\ distribution.ok =>
       /\ distribution.additionalBehaviors =
            MergeAdditionalBehaviors(
              createAdditionalBehaviors(
                SelectSeq(manifest.behaviors, LAMBDA b : ~Dropped(b)),
                createS3Origin(getS3OriginPath(manifest)), createImageOptimOrigin,
                createServerOrigins(serverFunctionUrls)),
              CallerRules)
       /\ \A p \in DOMAIN distribution.additionalBehaviors \ DOMAIN CallerRules :
            \E b \in Range(manifest.behaviors) : b.pattern = p /\ ~Dropped(b)
  /\ (pc = "Assets" /\ \E b \in Range(manifest.behaviors) : Dropped(b)) => distribution.ok
  /\ (pc = "failed" /\ Accepted) =>
       \/ error.field = "duplicateConstructId"
       \/ /\ error.field = "addEnvironment"
          /\ props.serverFunction.existingFunction
          /\ ~props.serverFunction.existingHasAddEnvironment

\* A finished build whose manifest has an edge-function behavior without an
\* origin, or a behavior naming an undeclared origin, on its own pattern, next
\* to a behavior that is emitted.
C8_Witness ==
  /\ pc = "done"
  /\ \E b \in Range(manifest.behaviors) :
       b.pattern = "a/*" /\ b.origin \in {<<>>, <<"ghost">>}
  /\ DOMAIN distribution.additionalBehaviors = {"b/*"}

ManifestDerivedRules ==
  createAdditionalBehaviors(manifest.behaviors, createS3Origin(getS3OriginPath(manifest)),
                            createImageOptimOrigin, createServerOrigins(serverFunctionUrls))

\* C9 (as stated; a caller rule for the pattern '__proto__' is not in the
\* output): in the final routing output the rule of every caller-supplied pattern
\* is exactly the caller's rule, the rule of every other pattern is exactly
\* the manifest-derived rule, and the patterns are those of both.
C9_CallerRuleReplaces_AsStated ==
  distribution.ok =>
    /\ \A p \in DOMAIN CallerRules :
         /\ p \in DOMAIN distribution.additionalBehaviors
         /\ distribution.additionalBehaviors[p] = CallerRules[p]
    /\ \A p \in DOMAIN ManifestDerivedRules \ DOMAIN CallerRules :
         /\ p \in DOMAIN distribution.additionalBehaviors
         /\ distribution.additionalBehaviors[p] = ManifestDerivedRules[p]
    /\ DOMAIN distribution.additionalBehaviors =
         DOMAIN ManifestDerivedRules \cup DOMAIN CallerRules

\* The failure the stated order of checks gives for a file.
StatedOutcome(f) ==
  IF ~f.exists THEN [status |-> "ManifestNotFound", field |-> "runBuildFirst"]
  ELSE IF f.top = "malformed" THEN [status |-> "ManifestParseError", field |-> "none"]
  ELSE IF f.top # "object" \/ f.obj.originsKind # "object"
    THEN [status |-> "ManifestValidationError", field |-> "origins"]
  ELSE IF f.obj.behaviorsKind # "array"
    THEN [status |-> "ManifestValidationError", field |-> "behaviors"]
  ELSE IF ~\E i \in 1..Len(f.obj.origins) : f.obj.origins[i].key = <<"default">>
    THEN [status |-> "ManifestValidationError", field |-> "default"]
  ELSE [status |-> "ok", field |-> "none"]

\* C10 (as stated): once readManifest has run, the build has failed with the
\* first failure of the stated order (not found, parse error, validation
\* error naming origins, behaviors, default), or the manifest was returned.
C10_ReaderClassification_AsStated ==
  pc # "ReadManifest" =>
    IF StatedOutcome(file).status = "ok"
    THEN Accepted /\ manifest = file.obj
    ELSE pc = "failed" /\ error = StatedOutcome(file)

\* C11 (as stated): every manifest the build proceeds with has an
\* origins.default entry whose type is "function"; a manifest whose default
\* origin has another type is rejected with the validation error naming
\* default.
C11_DefaultIsComputeTyped_AsStated ==
  /\ Accepted =>
       \E i \in 1..Len(manifest.origins) :
         manifest.origins[i].key = <<"default">> /\ manifest.origins[i].type = "function"
  /\ (pc # "ReadManifest" /\ file.exists /\ file.top = "object"
      /\ file.obj.originsKind = "object" /\ file.obj.behaviorsKind = "array"
      /\ \E i \in 1..Len(file.obj.origins) :
           file.obj.origins[i].key = <<"default">> /\ file.obj.origins[i].type # "function")
     => (pc = "failed" /\ error = [status |-> "ManifestValidationError", field |-> "default"])

\* C12 (as stated): normalizeBundlePath applied twice equals applying it
\* once, for every copy path of the manifest and for every path that
\* getAssetCopyEntries hands to the asset deployment; a path that does not
\* start with '.open-next/' is returned unchanged.
C12_NormalizeIdempotent_AsStated ==
  Accepted =>
    /\ \A o \in Range(manifest.origins) : \A e \in Range(o.copy) :
         /\ normalizeBundlePath(normalizeBundlePath(e.from)) = normalizeBundlePath(e.from)
         /\ (Len(e.from) < 5 \/ SubSeq(e.from, 1, 5) # <<".", "open", "-", "next", "/">>)
              => normalizeBundlePath(e.from) = e.from
    /\ \A e \in Range(getAssetCopyEntries(manifest)) : normalizeBundlePath(e.from) = e.from

\* The copy list of the manifest's s3 origin, empty when there is none.
DeclaredCopy ==
  IF \E o \in Range(file.obj.origins) : o.key = <<"s3">>
  THEN (CHOOSE o \in Range(file.obj.origins) : o.key = <<"s3">>).copy
  ELSE <<>>

HasBuildRootPrefix(path) ==
  Len(path) >= 5 /\ SubSeq(path, 1, 5) = <<".", "open", "-", "next", "/">>

\* C13: getAssetCopyEntries returns the s3 origin's copy entries in declared
\* order and number, with to, cached and versionedSubDir unchanged and from
\* stripped of one leading '.open-next/' (unchanged without it); it returns
\* the empty list without an s3 origin or copy list; and after the asset
\* step has called it, the manifest object is still the one that was read.
C13_AssetCopyEntries ==
  Accepted =>
    /\ Len(getAssetCopyEntries(file.obj)) = Len(DeclaredCopy)
    /\ \A i \in 1..Len(DeclaredCopy) :
         LET given == DeclaredCopy[i]
             got == getAssetCopyEntries(file.obj)[i]
         IN /\ got.to = given.to
            /\ got.cached = given.cached
            /\ got.versionedSubDir = given.versionedSubDir
            /\ IF HasBuildRootPrefix(given.from)
               THEN given.from = <<".", "open", "-", "next", "/">> \o got.from
               ELSE got.from = given.from
    /\ <<"Assets">> \in nodeIds => manifest = file.obj

\* A finished build whose s3 origin copies one prefixed and one unprefixed
\* path, the second with a versionedSubDir.
C13_Witness ==
  /\ pc = "done"
  /\ <<"Assets">> \in nodeIds
  /\ manifest = file.obj
  /\ Len(DeclaredCopy) = 2
  /\ Len(deployments) = 2
  /\ HasBuildRootPrefix(DeclaredCopy[1].from)
  /\ ~HasBuildRootPrefix(DeclaredCopy[2].from)
  /\ DeclaredCopy[2].versionedSubDir = "_next"

\* The origin key names a compute function of the build (default or split).
IsComputeKey(origin) == \E e \in Range(serverFunctionUrls) : e.key = origin

\* C14 (as stated; a behavior '__proto__' naming a compute function gets no
\* rule): in the routing output, every non-catch-all manifest behavior that
\* names a compute function (a split key or the default key) has a rule for
\* its pattern, and every manifest-derived rule that comes from such a
\* behavior targets that function's origin, allows all seven methods and has
\* the cache policy, origin-request policy, response-headers policy and
\* viewer-request hook of the default rule.
C14_ComputeRules_AsStated ==
  distribution.ok =>
    /\ \A b \in Range(manifest.behaviors) :
         (b.pattern \notin {"*", "/*"} /\ IsComputeKey(b.origin)) =>
           b.pattern \in DOMAIN distribution.additionalBehaviors
    /\ \A p \in DOMAIN distribution.additionalBehaviors \ DOMAIN CallerRules :
         IsComputeKey(LastResolving(p).origin) =>
           LET rule == distribution.additionalBehaviors[p]
           IN /\ rule.origin.kind = "server"
              /\ rule.origin.key = LastResolving(p).origin
              /\ rule.allowedMethods = AllMethods
              /\ rule.cachePolicy = distribution.defaultBehavior.cachePolicy
              /\ rule.originRequestPolicy = distribution.defaultBehavior.originRequestPolicy
              /\ rule.responseHeadersPolicy = distribution.defaultBehavior.responseHeadersPolicy
              /\ rule.functionAssociations = distribution.defaultBehavior.functionAssociations
              /\ rule.responseHeadersPolicy # "undefined"

WarningStepDone ==
  Accepted /\ pc \notin {"TagCache", "Waf", "AssetsBucket", "Revalidation", "TagCacheSeeder",
                         "EdgeFunctionsWarning"}

\* C15: once the warning step has run, the build has exactly one
\* edge-functions warning if manifest.edgeFunctions has an entry and none
\* otherwise, whatever the behaviors reference; there is never more than one;
\* and the step that raises it leaves every resource, function and construct
\* as it was and goes on to the default server function.
C15_EdgeWarningOnce ==
  /\ [](/\ WarningStepDone =>
             warnings = IF Len(manifest.edgeFunctions) >= 1
                        THEN <<"@open-next-cdk/edge-functions-unsupported">> ELSE <<>>
        /\ ~WarningStepDone => warnings = <<>>)
  /\ [][pc = "EdgeFunctionsWarning" =>
          /\ pc' = "ServerFunction"
          /\ error' = error
          /\ resources' = resources
          /\ fns' = fns
          /\ nodeIds' = nodeIds
          /\ tagCacheTable' = tagCacheTable
          /\ bucket' = bucket
          /\ revalidationQueue' = revalidationQueue]_vars

\* A finished build that warned once for two edge functions although no
\* behavior references an edge function.
C15_Witness ==
  /\ pc = "done"
  /\ Len(manifest.edgeFunctions) = 2
  /\ Len(warnings) = 1
  /\ \A b \in Range(manifest.behaviors) : b.edgeFunction = "undefined"

ImageOptimizerExists == <<"ImageOptimization">> \in DOMAIN fns

StatedKeyPrefix ==
  IF HasOrigin(manifest, S3Key) /\ OriginOf(manifest, S3Key).originPath # "undefined"
  THEN OriginOf(manifest, S3Key).originPath ELSE ""

\* C16, as the specification states it: the image-optimizer function always
\* has BUCKET_NAME and a BUCKET_KEY_PREFIX equal to the originPath of the
\* manifest's s3 origin (the empty string when there is none), and its only
\* grant on the bucket is the read grant.
C16_ImageOptimizerContract_AsStated ==
  ImageOptimizerExists =>
    LET fn == fns[<<"ImageOptimization">>]
    IN /\ {"BUCKET_NAME", "BUCKET_KEY_PREFIX"} \subseteq DOMAIN fn.env
       /\ fn.env["BUCKET_KEY_PREFIX"] = StatedKeyPrefix
       /\ fn.grants = {"bucket.grantRead"}

\* C17, as the specification states it: in the finished graph every default
\* and split compute function has REVALIDATION_QUEUE_URL and
\* REVALIDATION_QUEUE_REGION and the send-message grant on the revalidation
\* queue, whatever the caller's per-function override.
C17_QueueAccessAlways_AsStated ==
  (Accepted /\ pc = "done") =>
    \A e \in Range(serverFunctions) :
      /\ {"REVALIDATION_QUEUE_URL", "REVALIDATION_QUEUE_REGION"} \subseteq DOMAIN fns[e.fn].env
      /\ "queue.grantSendMessages" \in fns[e.fn].grants

WebAcls == {r \in resources : r.type = "AWS::WAFv2::WebACL"}

\* C18: once the Waf component has been constructed, (1) with waf.enabled
\* false there is no web ACL and the distribution, when built, has no ACL
\* reference, even if an existing ARN is supplied; (2) otherwise, with an
\* existing ARN, there is no web ACL and the distribution references that
\* ARN; (3) otherwise there is exactly one web ACL whose rules are the four
\* managed rule groups followed by the caller's rules, and the distribution
\* references it.
C18_WafThreeWay ==
  <<"Waf">> \in nodeIds =>
    IF props.waf.enabled = "false"
    THEN /\ WebAcls = {}
         /\ waf.webAclArn = "undefined"
         /\ distribution.ok => distribution.webAclId = "undefined"
    ELSE IF props.waf.existingWebAclArn
    THEN /\ WebAcls = {}
         /\ waf.webAclArn = "existing"
         /\ distribution.ok => distribution.webAclId = "existing"
    ELSE /\ Cardinality(WebAcls) = 1
         /\ waf.webAclArn = "created"
         /\ waf.rules = << "AWSManagedRulesCommonRuleSet",
                           "AWSManagedRulesKnownBadInputsRuleSet",
                           "AWSManagedRulesLinuxRuleSet",
                           "AWSManagedRulesUnixRuleSet" >> \o props.waf.additionalRules
         /\ distribution.ok => distribution.webAclId = "created"

\* A finished build with waf.enabled false and an existing ARN supplied: no
\* web ACL and no ACL reference on the distribution.
C18_Witness ==
  /\ pc = "done"
  /\ props.waf.enabled = "false"
  /\ props.waf.existingWebAclArn
  /\ distribution.ok
  /\ distribution.webAclId = "undefined"
  /\ WebAcls = {}

\* The position of a construct in the stated order of creation.
StatedRank(id) ==
  CASE id = <<"TagCache">> -> 1
    [] id = <<"Waf">> -> 2
    [] id \in {<<"AccessLogBucket">>, <<"AssetsBucket">>} -> 3
    [] id = <<"Revalidation">> -> 4
    [] id = <<"TagCacheSeeder">> -> 5
    [] id = <<"ServerFunction">> -> 6
    [] Len(id) > 1 /\ id[1] = "ServerFunction" -> 7
    [] id = <<"ImageOptimization">> -> 9
    [] id = <<"CloudFrontLogs">> -> 10
    [] id = <<"Distribution">> -> 11
    [] id = <<"Assets">> -> 12
    [] id = <<"Alarms">> -> 13
    [] id = <<"Dns">> -> 14
    [] id = <<"Warmer">> -> 15

\* Manifest keys of the split compute origins, in manifest key order.
SplitComputeKeysInOrder ==
  SelectSeq([i \in 1..Len(manifest.origins) |-> manifest.origins[i].key],
            LAMBDA k : /\ k \notin {<<"default">>, <<"s3">>, <<"imageOptimizer">>}
                       /\ \E i \in 1..Len(manifest.origins) :
                            manifest.origins[i].key = k /\ manifest.origins[i].type = "function")

IsPrefixOf(s, t) == Len(s) <= Len(t) /\ s = SubSeq(t, 1, Len(s))

HasLazyOriginMap(f) ==
  /\ <<"ServerFunction">> \in DOMAIN f
  /\ "OPEN_NEXT_ORIGIN" \in DOMAIN f[<<"ServerFunction">>].env
  /\ f[<<"ServerFunction">>].env["OPEN_NEXT_ORIGIN"] = "Lazy(JSON.stringify(originMap))"

\* What a step that creates construct n consumes has been created before.
HandlesReady(n) ==
  LET r == StatedRank(n)
  IN /\ r \in {4, 6, 7} => <<"TagCache">> \in nodeIds /\ bucket # "undefined"
     /\ r = 5 => tagCacheTable # "undefined" /\ <<"Revalidation">> \in nodeIds
     /\ r \in {6, 7} => revalidationQueue # "undefined"
     /\ r = 7 => <<"ServerFunction">> \in nodeIds
     /\ r = 9 => bucket # "undefined"
     /\ r = 11 => /\ bucket # "undefined"
                  /\ {<<"Waf">>, <<"ImageOptimization">>, <<"CloudFrontLogs">>} \subseteq nodeIds
                  /\ \E i \in 1..Len(serverFunctionUrls) :
                       serverFunctionUrls[i].key = <<"default">>
     /\ r = 12 => bucket # "undefined" /\ distribution.ok
     /\ r \in {13, 14} => distribution.ok /\ Len(serverFunctions) >= 1
     /\ r = 15 => Len(serverFunctions) >= 1

\* C19: every step creates constructs that come no earlier in the stated
\* order (cache table, access control, bucket, revalidation, seeder, default
\* function, split functions, origin-map injection, image optimizer, access
\* logs, distribution, asset upload, alarms, DNS, warmer) than anything
\* already created, with every handle it consumes already created; the
\* compute functions are the default one followed by the split compute
\* origins in manifest key order; the origin map is injected after the last
\* split function and before the image optimizer; and a constructed build has
\* every unconditional step's construct.
C19_ConstructionOrder ==
  /\ [][/\ \A n \in nodeIds' \ nodeIds :
             /\ \A m \in nodeIds : StatedRank(m) <= StatedRank(n)
             /\ HandlesReady(n)
        /\ (HasLazyOriginMap(fns') /\ ~HasLazyOriginMap(fns)) =>
             /\ [i \in 1..Len(serverFunctions) |-> serverFunctions[i].key] =
                  <<<<"default">>>> \o SplitComputeKeysInOrder
             /\ \A m \in nodeIds : StatedRank(m) <= 7]_vars
  /\ [](/\ IsPrefixOf([i \in 1..Len(serverFunctions) |-> serverFunctions[i].key],
                      <<<<"default">>>> \o SplitComputeKeysInOrder)
        /\ pc \in {"constructed", "done"} =>
             /\ {<<"TagCache">>, <<"Waf">>, <<"Revalidation">>, <<"ServerFunction">>,
                 <<"ImageOptimization">>, <<"CloudFrontLogs">>, <<"Distribution">>,
                 <<"Assets">>, <<"Alarms">>, <<"Warmer">>} \subseteq nodeIds
             /\ [i \in 1..Len(serverFunctions) |-> serverFunctions[i].key] =
                  <<<<"default">>>> \o SplitComputeKeysInOrder)

\* A finished build with two split compute functions, the seeder and DNS
\* aside, whose origin map was injected.
C19_Witness ==
  /\ pc = "done"
  /\ Len(serverFunctions) = 3
  /\ serverFunctions[2].key # serverFunctions[3].key
  /\ HasLazyOriginMap(fns)
  /\ <<"Distribution">> \in nodeIds

SplitFunctionsCreated == {e \in Range(serverFunctions) : e.key # <<"default">>}

OriginMapAttached ==
  /\ <<"ServerFunction">> \in DOMAIN fns
  /\ "OPEN_NEXT_ORIGIN" \in DOMAIN fns[<<"ServerFunction">>].env
  /\ pc \notin {"ServerFunction", "SplitFunctions"}
  /\ \E i \in 1..Len(manifest.origins) :
       manifest.origins[i].key \notin {<<"default">>, <<"s3">>, <<"imageOptimizer">>}

\* C20 (as stated; the endpoint of a split function with the key '__proto__'
\* is not in the text): from the step that attaches OPEN_NEXT_ORIGIN to the default function
\* the variable holds the deferred value, not its text; until synthesis the
\* producer has not been called and no text exists; synthesis calls it once,
\* and the text then has exactly one member per split function created in
\* the build, with that function's URL; the producer is never called again.
C20_DeferredOriginMap_AsStated ==
  /\ [](OriginMapAttached =>
          /\ fns[<<"ServerFunction">>].env["OPEN_NEXT_ORIGIN"] =
               "Lazy(JSON.stringify(originMap))"
          /\ pc # "done" =>
               /\ template.produceCalls = 0
               /\ template.openNextOrigin = <<>>
               /\ ~template.synthesized
          /\ pc = "done" =>
               /\ template.produceCalls = 1
               /\ Range(template.openNextOrigin) =
                    {<<e.key, <<"url", e.fn>>>> : e \in SplitFunctionsCreated}
               /\ Len(template.openNextOrigin) = Cardinality(SplitFunctionsCreated))
  /\ [][template.produceCalls' # template.produceCalls =>
          pc = "constructed" /\ pc' = "done" /\ template.produceCalls = 0]_vars

\* The fatal reasons the specification lists, read off the file itself.
StatedFatal ==
  \/ ~file.exists
  \/ file.top = "malformed"
  \/ /\ file.top = "object"
     /\ \/ file.obj.originsKind # "object"
        \/ file.obj.behaviorsKind # "array"
        \/ \A i \in 1..Len(file.obj.origins) : file.obj.origins[i].key # <<"default">>

NothingCreated ==
  /\ tagCacheTable = "undefined"
  /\ bucket = "undefined"
  /\ revalidationQueue = "undefined"
  /\ fns = <<>>
  /\ serverFunctions = <<>>
  /\ nodeIds = {}
  /\ resources = {}
  /\ ~distribution.ok
  /\ DOMAIN distribution.additionalBehaviors = {}
  /\ warnings = <<>>
  /\ deployments = <<>>
  /\ alarms = <<>>
  /\ dnsRecords = <<>>
  /\ outputs = <<>>
  /\ ~template.synthesized

\* C21: when the manifest file is absent, unparsable, lacks a valid origins
\* mapping or behaviors list, or lacks origins.default, the build is failed as
\* soon as the reader has run, with no table, bucket, queue, function,
\* routing rule, warning or output created; and a failed build takes no
\* further step.
C21_ReaderFailureAborts ==
  /\ []((StatedFatal /\ pc # "ReadManifest") =>
          /\ pc = "failed"
          /\ error.status \in {"ManifestNotFound", "ManifestParseError",
                               "ManifestValidationError"}
          /\ NothingCreated)
  /\ [][pc # "failed"]_vars

\* A build failed on a manifest whose origins mapping is valid and has a
\* default, but whose behaviors field is not a list.
C21_Witness ==
  /\ pc = "failed"
  /\ file.exists
  /\ file.top = "object"
  /\ file.obj.originsKind = "object"
  /\ \E i \in 1..Len(file.obj.origins) : file.obj.origins[i].key = <<"default">>
  /\ file.obj.behaviorsKind = "object"
  /\ NothingCreated

\* C22, as the specification states it: two builds with the same manifest,
\* build directory and caller overrides produce identical graphs, also when
\* the seeder is eligible. Every part of the graph but the seeder's
\* deployTimestamp is computed from the manifest and the overrides alone, so
\* two builds agree exactly when deployTimestamp has the same value in every
\* build that creates the seeder.
C22_Deterministic_AsStated ==
  <<"TagCacheSeeder">> \in nodeIds =>
    seederTimestamp = (CHOOSE t \in Clock : TRUE)

\* A step leaves the nodes that exist as they are: the policy and tags of
\* the assets bucket, the rules of the distribution, and the resources and
\* constructs created so far.
HandlesKept ==
  /\ bucket # "undefined" => (bucket' = bucket /\ bucketConfig' = bucketConfig)
  /\ distribution.ok => distribution' = distribution
  /\ resources \subseteq resources'
  /\ nodeIds \subseteq nodeIds'

\* C23, as the specification states it: once a step has created a node, no
\* later step changes its variables or configuration (a function's
\* environment, grants and name; the bucket's policy and tags; the rules).
C23_NodesNeverMutated_AsStated ==
  [][/\ HandlesKept
     /\ \A id \in DOMAIN fns : id \in DOMAIN fns' /\ fns'[id] = fns[id]]_vars

DnsStepDone == pc \in {"Warmer", "Outputs", "constructed", "done"}

RecordsFor(type, name) ==
  {i \in 1..Len(dnsRecords) : dnsRecords[i].type = type /\ dnsRecords[i].name = name}

\* C24, as the specification states it: with DNS options there is exactly
\* one A and one AAAA record for each record name and none for another name,
\* the record names being recordNames or, when recordNames is not given, the
\* distribution's domain names; without DNS options there is no record.
C24_DnsRecords_AsStated ==
  DnsStepDone =>
    LET names == IF ~props.dns.defined THEN <<>>
                 ELSE IF props.dns.recordNamesDefined THEN props.dns.recordNames
                 ELSE distribution.domainNames
    IN /\ \A n \in Range(names) :
            Cardinality(RecordsFor("A", n)) = 1 /\ Cardinality(RecordsFor("AAAA", n)) = 1
       /\ \A i \in 1..Len(dnsRecords) : dnsRecords[i].name \in Range(names)

StatedPrefix == IF props.prefix.defined THEN props.prefix.value ELSE <<"opennext">>

AlarmsWithId(id) == {i \in 1..Len(alarms) : alarms[i].id = id}

\* C25, as the specification states it: once the Alarms construct exists,
\* there is no alarm unless alarms.enabled is true; when it is true there are
\* exactly 3 plus the number of server functions alarms: one DLQ depth
\* alarm, one revalidation error alarm, one CloudFront 5xx alarm and one
\* error alarm per default or split function; and every alarm name starts
\* with the resource prefix. Before the Alarms step there is no alarm.
C25_AlarmCount_AsStated ==
  /\ <<"Alarms">> \notin nodeIds => alarms = <<>>
  /\ <<"Alarms">> \in nodeIds =>
       IF ~props.alarms.enabled THEN alarms = <<>>
       ELSE /\ Len(alarms) = 3 + Len(serverFunctions)
            /\ \A id \in {<<"DlqDepthAlarm">>, <<"RevalidationErrorAlarm">>,
                          <<"CloudFront5xxAlarm">>} : Cardinality(AlarmsWithId(id)) = 1
            /\ \A e \in Range(serverFunctions) :
                 Cardinality(AlarmsWithId(
                   <<"ServerErrorAlarm", "-">> \o
                   (IF e.key = <<"default">> THEN <<"server">> ELSE e.key))) = 1
            /\ \A i \in 1..Len(alarms) :
                 /\ Len(alarms[i].alarmName) > Len(StatedPrefix) + 1
                 /\ SubSeq(alarms[i].alarmName, 1, Len(StatedPrefix) + 1) =
                      StatedPrefix \o <<"-">>

DeclaredOriginKeys == {manifest.origins[i].key : i \in 1..Len(manifest.origins)}

\* C26, as the specification states it: every additional rule derived from
\* the manifest comes from a behavior whose origin key is declared in
\* manifest.origins; a behavior naming 's3' or 'imageOptimizer' without such
\* a declaration yields no rule.
C26_RulesTargetDeclaredOrigins_AsStated ==
  distribution.ok =>
    \A p \in DOMAIN distribution.additionalBehaviors \ DOMAIN CallerRules :
      \E i \in 1..Len(manifest.behaviors) :
        /\ manifest.behaviors[i].pattern = p
        /\ manifest.behaviors[i].origin \in DeclaredOriginKeys
        /\ \A j \in (i + 1)..Len(manifest.behaviors) :
             manifest.behaviors[j].pattern = p =>
               manifest.behaviors[j].origin \notin {<<"s3">>, <<"imageOptimizer">>}
                 \/ manifest.behaviors[j].origin \in DeclaredOriginKeys

\* C27, as the specification states it: in a finished build whose caller
\* gave the server functions no environment of their own, the default
\* function has OPEN_NEXT_ORIGIN if and only if the build created at least
\* one split compute function, and no split function has it.
C27_OriginMapIffSplitFunctions_AsStated ==
  (/\ pc = "done"
   /\ DOMAIN props.serverFunction.environment = {}
   /\ \A k \in DOMAIN props.splitFunctions :
        DOMAIN props.splitFunctions[k].environment = {}) =>
    /\ "OPEN_NEXT_ORIGIN" \in DOMAIN fns[<<"ServerFunction">>].env
         <=> \E e \in Range(serverFunctions) : e.key # <<"default">>
    /\ \A e \in Range(serverFunctions) :
         e.key # <<"default">> => "OPEN_NEXT_ORIGIN" \notin DOMAIN fns[e.fn].env

\* C28, as the specification states it: in a finished build, for the
\* default, split, revalidation, seeder and image-optimizer functions the
\* build itself created, every entry of the caller's environment map is in
\* the function's environment with the caller's value, whether or not its
\* name is that of a computed variable.
C28_CallerEnvironmentWins_AsStated ==
  pc = "done" =>
    \A id \in DOMAIN fns :
      (id \in {<<"ServerFunction">>, <<"Revalidation">>, <<"TagCacheSeeder">>,
               <<"ImageOptimization">>} \/ \E e \in Range(serverFunctions) : e.fn = id)
      /\ ~fns[id].existing =>
        \A k \in DOMAIN CallerEnvironment(id) :
          /\ k \in DOMAIN fns[id].env
          /\ fns[id].env[k] = CallerEnvironment(id)[k]

\* C29, as the specification states it: in a finished build the functions
\* the build created have pairwise distinct names and the split functions
\* have pairwise distinct construct ids.
C29_DistinctNamesAndIds_AsStated ==
  pc = "done" =>
    /\ \A a, b \in {id \in DOMAIN fns : ~fns[id].existing} :
         a # b => fns[a].name # fns[b].name
    /\ \A i, j \in 1..Len(serverFunctions) :
         i # j => serverFunctions[i].fn # serverFunctions[j].fn

\* C30, as the specification states it: for a manifest file that exists
\* and holds syntactically valid JSON, once the reader has run either the
\* build has a manifest whose origins is a mapping with a default entry and
\* whose behaviors is a list, or the reader failed with the manifest
\* validation error; no other kind of error occurs.
C30_ValidJsonOutcome_AsStated ==
  (file.exists /\ file.top # "malformed" /\ pc # "ReadManifest") =>
    \/ /\ error.status \in {"none", "Error"}
       /\ manifest.originsKind = "object"
       /\ \E i \in 1..Len(manifest.origins) : manifest.origins[i].key = <<"default">>
       /\ manifest.behaviorsKind = "array"
    \/ /\ pc = "failed"
       /\ error.status = "ManifestValidationError"

====
